---- MODULE Spec2Model ----
(***************************************************************************)
(* A model of schema-tui's interactive editing engine: the option resolver *)
(* (script-template substitution, TTL cache), the editing widgets and the  *)
(* application controller (activate -> edit -> commit cycle).              *)
(*                                                                         *)
(* Strings are sequences of one-character strings.  A serde_json Value is  *)
(* a record tagged by t: String (s), Number (n, an i64), Float (f, a       *)
(* fixed-point number), Bool (b) or Null.                                  *)
(***************************************************************************)
EXTENDS Integers, Sequences, FiniteSets, TLC

VARIABLES
    \* ---- substitute_variables (options/resolver.rs) ----
    sv_command,     \* the command template
    sv_values,      \* the value map handed to the substitution
    sv_result,      \* the substituted command
    sv_pc,          \* "ready" before the call, "done" after it
    \* ---- OptionResolver and its OptionCache (options/) ----
    cache,          \* OptionCache.cache: cache key -> CachedOptions
    now,            \* the monotonic clock read by Instant::now / elapsed
    rs_last,        \* history: what the latest resolution did
    rs_hist,        \* history: per cache key, the latest successful execution
                    \* made under a declared TTL
    \* ---- one widget on its own (tui/widgets/) ----
    wd,             \* the widget
    wd_last,        \* history: the latest call on it and the WidgetResult
                    \* it returned
    \* ---- the controller SchemaTUI (tui/app.rs) ----
    app,            \* the fields of SchemaTUI
    app_pc,         \* "setup" until run() is called, then "running"
    app_last,       \* history: the WidgetResult the latest key produced,
                    \* while a text field is edited the value map before its
                    \* activation and whether the edit has written another
                    \* entry for the field to the configuration, and
                    \* the save and handler calls and processes it caused, in
                    \* order, and the value map at the latest run of a script
    \* ---- visibility conditions over a value map (tui/conditions.rs) ----
    cv_values,      \* the value map the conditions are evaluated against
    cv_last,        \* history: the latest commit or query and what it returned
    \* ---- resolve_from_file_list over a directory (options/resolver.rs) ----
    fl              \* the paths the glob yields, and the latest call with
                    \* its extraction pattern and result

substVars == <<sv_command, sv_values, sv_result, sv_pc>>
resolverVars == <<cache, now, rs_last, rs_hist>>
widgetVars == <<wd, wd_last>>
appVars == <<app, app_pc, app_last>>
condVars == <<cv_values, cv_last>>
fileVars == <<fl>>

vars == <<substVars, resolverVars, widgetVars, appVars, condVars, fileVars>>

\* An Option<T> is the set of its values: {} is None, {x} is Some(x).
None == {}
Some(x) == {x}
Unwrap(o) == CHOOSE x \in o : TRUE

----------------------------------------------------------------------------
(* Values and strings                                                      *)

VString(s) == [t |-> "String", s |-> s]
VNumber(n) == [t |-> "Number", n |-> n]
VBool(b)   == [t |-> "Bool", b |-> b]
VNull      == [t |-> "Null"]

Digit(d) == CASE d = 0 -> "0" [] d = 1 -> "1" [] d = 2 -> "2" [] d = 3 -> "3"
              [] d = 4 -> "4" [] d = 5 -> "5" [] d = 6 -> "6" [] d = 7 -> "7"
              [] d = 8 -> "8" [] d = 9 -> "9"

RECURSIVE NatToString(_)
NatToString(n) ==
    IF n < 10 THEN <<Digit(n)>> ELSE NatToString(n \div 10) \o <<Digit(n % 10)>>

\* i64::to_string: decimal digits, a leading minus sign for negatives.
IntToString(n) == IF n < 0 THEN <<"-">> \o NatToString(-n) ELSE NatToString(n)

BoolToString(b) == IF b THEN <<"t", "r", "u", "e">> ELSE <<"f", "a", "l", "s", "e">>

----------------------------------------------------------------------------
(* OptionResolver::substitute_variables                                    *)

\* Index of the first "}" of s at or after i, 0 if there is none.
RECURSIVE FindClose(_, _)
FindClose(s, i) ==
    IF i > Len(s) THEN 0
    ELSE IF s[i] = "}" THEN i
    ELSE FindClose(s, i + 1)

\* The regex \$\{([^}]+)\} anchored at i: the index of the closing brace of
\* the match, 0 if there is no match at i.
MatchAt(s, i) ==
    IF i + 3 <= Len(s) /\ s[i] = "$" /\ s[i + 1] = "{" /\ s[i + 2] # "}"
    THEN FindClose(s, i + 3)
    ELSE 0

\* Regex::captures_iter: the non-overlapping matches from left to right.
RECURSIVE CapturesFrom(_, _)
CapturesFrom(s, i) ==
    IF i > Len(s) THEN <<>>
    ELSE LET e == MatchAt(s, i) IN
         IF e = 0 THEN CapturesFrom(s, i + 1)
         ELSE <<[full |-> SubSeq(s, i, e), name |-> SubSeq(s, i + 2, e - 1)]>>
              \o CapturesFrom(s, e + 1)

Captures(s) == CapturesFrom(s, 1)

\* str::replace: every non-overlapping occurrence of pat, left to right.
RECURSIVE ReplaceFrom(_, _, _, _)
ReplaceFrom(s, i, pat, rep) ==
    IF i > Len(s) THEN <<>>
    ELSE IF i + Len(pat) - 1 <= Len(s) /\ SubSeq(s, i, i + Len(pat) - 1) = pat
    THEN rep \o ReplaceFrom(s, i + Len(pat), pat, rep)
    ELSE <<s[i]>> \o ReplaceFrom(s, i + 1, pat, rep)

StrReplace(s, pat, rep) == ReplaceFrom(s, 1, pat, rep)

\* The closure of resolver.rs:154-162: the replacement text of one variable.
Replacement(values, name) ==
    IF name \in DOMAIN values
    THEN LET v == values[name] IN
         CASE v.t = "String" -> v.s
           [] v.t = "Number" -> IntToString(v.n)
           [] v.t = "Bool"   -> BoolToString(v.b)
           [] OTHER          -> <<>>
    ELSE <<>>

\* The loop of resolver.rs:150-165: one replace over the whole running result
\* for each capture of the ORIGINAL command.
RECURSIVE SubstituteLoop(_, _, _, _)
SubstituteLoop(caps, k, result, values) ==
    IF k > Len(caps) THEN result
    ELSE SubstituteLoop(caps, k + 1,
                        StrReplace(result, caps[k].full, Replacement(values, caps[k].name)),
                        values)

substitute_variables(command, values) ==
    SubstituteLoop(Captures(command), 1, command, values)

\* What the placeholders of command stand for, read in one pass over the
\* command: each match of the pattern gives way to its replacement text, and
\* every other character is copied.
RECURSIVE SinglePassFrom(_, _, _)
SinglePassFrom(s, i, values) ==
    IF i > Len(s) THEN <<>>
    ELSE LET e == MatchAt(s, i) IN
         IF e = 0 THEN <<s[i]>> \o SinglePassFrom(s, i + 1, values)
         ELSE Replacement(values, SubSeq(s, i + 2, e - 1)) \o SinglePassFrom(s, e + 1, values)

SinglePass(command, values) == SinglePassFrom(command, 1, values)

----------------------------------------------------------------------------
(* Inputs of the substitution                                              *)

MaxTokens == 3

KeyA == <<"a">>
KeyB == <<"b">>
PlaceholderA == <<"$", "{", "a", "}">>
PlaceholderB == <<"$", "{", "b", "}">>

TemplateTokens ==
    {PlaceholderA, PlaceholderB, <<"x">>, <<"$">>, <<"{", "b", "}">>}

RECURSIVE TemplatesOf(_)
TemplatesOf(n) ==
    IF n = 0 THEN {<<>>}
    ELSE LET shorter == TemplatesOf(n - 1) IN
         shorter \cup {t \o tok : t \in shorter, tok \in TemplateTokens}

SubstValues ==
    {VString(<<>>), VString(<<"x">>), VString(PlaceholderA), VString(PlaceholderB),
     VNumber(42), VNumber(-7), VBool(TRUE), VBool(FALSE), VNull}

SubstValueMaps ==
    UNION {[D -> SubstValues] : D \in SUBSET {KeyA, KeyB}}

SubstInputs ==
    /\ sv_command \in TemplatesOf(MaxTokens)
    /\ sv_values \in SubstValueMaps
    /\ sv_result = <<>>
    /\ sv_pc = "ready"

\* The substitution at rest, for the specifications of the other components.
SubstIdle ==
    /\ sv_command = <<>>
    /\ sv_values = <<>>
    /\ sv_result = <<>>
    /\ sv_pc = "idle"

Substitute ==
    /\ sv_pc = "ready"
    /\ sv_result' = substitute_variables(sv_command, sv_values)
    /\ sv_pc' = "done"
    /\ UNCHANGED <<sv_command, sv_values>>
    /\ UNCHANGED <<resolverVars, widgetVars, appVars, condVars, fileVars>>

SubstNext == Substitute

----------------------------------------------------------------------------
(* OptionCache (options/cache.rs)                                          *)

\* OptionCache::new
CacheNew == <<>>

\* OptionCache::get at clock reading t: the options of a live entry
\* (CacheGet); CacheGetIgnoringExpiry is the same read without the TTL test.
CacheGetIgnoringExpiry(c, key, t) ==
    IF key \in DOMAIN c THEN Some(c[key].options) ELSE None

CacheGetInclusive(c, key, t) ==
    IF key \in DOMAIN c /\ t - c[key].timestamp <= c[key].duration
    THEN Some(c[key].options)
    ELSE None

CacheGet(c, key, t) ==
    IF key \in DOMAIN c /\ t - c[key].timestamp < c[key].duration
    THEN Some(c[key].options)
    ELSE None

\* OptionCache::insert at clock reading t.
CacheInsert(c, key, options, duration_secs, t) ==
    [k \in DOMAIN c \cup {key} |->
        IF k = key
        THEN [options |-> options, timestamp |-> t, duration |-> duration_secs]
        ELSE c[k]]

----------------------------------------------------------------------------
(* OptionResolver::resolve_from_script (options/resolver.rs)               *)

\* A Result<Vec<String>>; the message of an error is a sequence of texts.
Ok(options) == [ok |-> TRUE, options |-> options, error |-> <<>>]
Err(error)  == [ok |-> FALSE, options |-> <<>>, error |-> error]

ScriptErrorWithoutStderr(stderr) == Err(<<"Script failed: ">>)

\* anyhow!("Script failed: {}", String::from_utf8_lossy(&output.stderr))
ScriptError(stderr) == Err(<<"Script failed: ", stderr>>)

CacheKeyOfTemplate(command, substituted_command) == command

\* format!("{}:{}", command, substituted_command)
CacheKey(command, substituted_command) == command \o <<":">> \o substituted_command

Whitespace == {" ", "\n", "\t"}

\* The first position from i on that holds no whitespace (Len(s) + 1 if none).
RECURSIVE SkipWhitespace(_, _)
SkipWhitespace(s, i) ==
    IF i <= Len(s) /\ s[i] \in Whitespace THEN SkipWhitespace(s, i + 1) ELSE i

\* The position of the first double quote from i on (0 if none).
RECURSIVE FindQuote(_, _)
FindQuote(s, i) ==
    IF i > Len(s) THEN 0
    ELSE IF s[i] = "\"" THEN i
    ELSE FindQuote(s, i + 1)

\* The elements of a JSON array from position i on, i being where an element
\* must start; acc holds the elements read so far.
RECURSIVE JsonElements(_, _, _)
JsonElements(s, i, acc) ==
    IF i > Len(s) \/ s[i] # "\"" THEN Err(<<"json">>)
    ELSE LET close == FindQuote(s, i + 1)
             items == Append(acc, SubSeq(s, i + 1, close - 1))
         IN  IF close = 0 \/ close + 1 > Len(s) THEN Err(<<"json">>)
             ELSE IF s[close + 1] = "," THEN JsonElements(s, close + 2, items)
             ELSE IF s[close + 1] = "]" /\ SkipWhitespace(s, close + 2) > Len(s)
                  THEN Ok(items)
                  ELSE Err(<<"json">>)

\* serde_json::from_str::<Vec<String>>: the array when the text is a JSON
\* array of strings, an error for any other text.  The texts read here are
\* compact arrays of strings without escapes, and texts that are no JSON
\* array of strings at all.
JsonArrayOfStrings(stdout) ==
    LET start == SkipWhitespace(stdout, 1)
    IN  IF start > Len(stdout) \/ stdout[start] # "[" THEN Err(<<"json">>)
        ELSE IF start + 1 <= Len(stdout) /\ stdout[start + 1] = "]"
        THEN IF SkipWhitespace(stdout, start + 2) > Len(stdout)
             THEN Ok(<<>>) ELSE Err(<<"json">>)
        ELSE JsonElements(stdout, start + 1, <<>>)

\* str::lines: the text split at line feeds; a final line feed ends the last
\* line and starts no new one.
RECURSIVE LinesFrom(_, _, _)
LinesFrom(s, i, line) ==
    IF i > Len(s) THEN (IF line = <<>> THEN <<>> ELSE <<line>>)
    ELSE IF s[i] = "\n" THEN <<line>> \o LinesFrom(s, i + 1, <<>>)
    ELSE LinesFrom(s, i + 1, Append(line, s[i]))

Lines(s) == LinesFrom(s, 1, <<>>)

\* str::trim
RECURSIVE TrimEnd(_)
TrimEnd(s) ==
    IF s # <<>> /\ s[Len(s)] \in Whitespace THEN TrimEnd(SubSeq(s, 1, Len(s) - 1)) ELSE s

Trim(s) == LET start == SkipWhitespace(s, 1) IN TrimEnd(SubSeq(s, start, Len(s)))

\* .map(|s| s.trim().to_string()).filter(|s| !s.is_empty()).collect()
RECURSIVE TrimmedNonEmpty(_)
TrimmedNonEmpty(lines) ==
    IF lines = <<>> THEN <<>>
    ELSE LET line == Trim(Head(lines))
         IN  (IF line = <<>> THEN <<>> ELSE <<line>>) \o TrimmedNonEmpty(Tail(lines))

\* What running `sh -c substituted_command` gives: the process may fail to
\* spawn, exit with a non-zero status, or succeed with some standard output.
\* How long it runs is `took` ticks of the clock.
ScriptRun(spawned, success, stdout, stderr, took) ==
    [spawned |-> spawned, success |-> success, stdout |-> stdout, stderr |-> stderr,
     took |-> took]

\* The body of resolve_from_script, the cache being consulted when `consult`
\* holds (resolver.rs:72).  It gives the result, the cache and the clock
\* afterwards, whether Command::output was called (executed) and whether the
\* cache was read and written.
ResolveFromScriptWhen(c, t, command, cache_duration, values, run, consult) ==
    LET substituted_command == substitute_variables(command, values)
        cache_key == CacheKey(command, substituted_command)
        cached == IF consult THEN CacheGet(c, cache_key, t) ELSE None
        t_end == t + run.took
        parsed == JsonArrayOfStrings(run.stdout)
        base == [cache_key |-> cache_key, cache_duration |-> cache_duration,
                 substituted |-> substituted_command,
                 started |-> t, cache_read |-> consult]
    IN  IF cached # None
        THEN [result |-> Ok(Unwrap(cached)), cache |-> c, now |-> t,
              executed |-> FALSE, cache_written |-> FALSE] @@ base
        ELSE IF ~run.spawned
        THEN [result |-> Err(<<"io">>), cache |-> c, now |-> t_end,
              executed |-> TRUE, cache_written |-> FALSE] @@ base
        ELSE IF ~run.success
        THEN [result |-> ScriptError(run.stderr), cache |-> c, now |-> t_end,
              executed |-> TRUE, cache_written |-> FALSE] @@ base
        ELSE IF ~parsed.ok
        THEN [result |-> parsed, cache |-> c, now |-> t_end,
              executed |-> TRUE, cache_written |-> FALSE] @@ base
        ELSE IF cache_duration # None
        THEN [result |-> parsed,
              cache |-> CacheInsert(c, cache_key, parsed.options,
                                    Unwrap(cache_duration), t_end),
              now |-> t_end, executed |-> TRUE, cache_written |-> TRUE] @@ base
        ELSE [result |-> parsed, cache |-> c, now |-> t_end,
              executed |-> TRUE, cache_written |-> FALSE] @@ base

ResolveFromScriptAlwaysCached(c, t, command, cache_duration, values, run) ==
    ResolveFromScriptWhen(c, t, command, cache_duration, values, run, TRUE)

resolve_from_script(c, t, command, cache_duration, values, run) ==
    ResolveFromScriptWhen(c, t, command, cache_duration, values, run,
                          cache_duration # None)

\* OptionResolver::resolve_from_script_sync: no cache; output that is no JSON
\* array of strings is read line by line.
resolve_from_script_sync(t, command, values, run) ==
    LET substituted_command == substitute_variables(command, values)
        parsed == JsonArrayOfStrings(run.stdout)
    IN  [result |-> IF ~run.spawned THEN Err(<<"io">>)
                    ELSE IF ~run.success THEN ScriptError(run.stderr)
                    ELSE IF parsed.ok THEN parsed
                    ELSE Ok(TrimmedNonEmpty(Lines(run.stdout))),
         now |-> t + run.took,
         substituted |-> substituted_command,
         started |-> t]

----------------------------------------------------------------------------
(* The resolver's environment: sources, bindings, scripts and the clock    *)

MaxTTL == 2
MaxTime == 2

ScriptCommand == PlaceholderA

CacheDurations == {None} \cup {Some(d) : d \in 1..MaxTTL}

ResolverBindings ==
    {(KeyA :> VString(<<"x">>)), (KeyA :> VString(<<"y">>))}

\* What the scripts print: ["a","b"] and ["c"], each ended by a line feed, and
\* the two lines "a" and " b " followed by an empty line.
JsonOutput == {<<"[", "\"", "a", "\"", ",", "\"", "b", "\"", "]", "\n">>,
               <<"[", "\"", "c", "\"", "]", "\n">>}
TextOutput == <<"a", "\n", " ", "b", " ", "\n", "\n">>

Stdouts == JsonOutput \cup {TextOutput}

Stderrs == {"not found", "denied"}

\* A run takes no time to speak of, or one tick of the clock.
ScriptRuns ==
    {ScriptRun(TRUE, TRUE, out, "", 0) : out \in Stdouts}
    \cup {ScriptRun(TRUE, TRUE, out, "", 1) : out \in {TextOutput} \cup {o \in JsonOutput : Len(o) > 6}}
    \cup {ScriptRun(TRUE, FALSE, <<>>, err, 0) : err \in Stderrs}
    \cup {ScriptRun(FALSE, FALSE, <<>>, "", 0)}

NoResolution ==
    [result |-> Err(<<>>), cache_kept |-> TRUE, executed |-> FALSE,
     cache_written |-> FALSE, cache_key |-> <<>>, cache_duration |-> None,
     substituted |-> <<>>, ran |-> None,
     started |-> 0, cache_read |-> FALSE, prior |-> None, op |-> "none"]

ResolverInit ==
    /\ cache = CacheNew
    /\ now = 0
    /\ rs_last = NoResolution
    /\ rs_hist = <<>>

\* One call of OptionResolver::resolve on a Script source.
ResolveScript ==
    \E cache_duration \in CacheDurations, values \in ResolverBindings, run \in ScriptRuns :
      \E r \in {resolve_from_script(cache, now, ScriptCommand, cache_duration, values, run)} :
        /\ r.now <= MaxTime
        /\ cache' = r.cache
        /\ now' = r.now
        /\ rs_last' = [op |-> "resolve",
                       prior |-> IF r.cache_key \in DOMAIN rs_hist
                                 THEN Some(rs_hist[r.cache_key]) ELSE None,
                       cache_kept |-> (r.cache = cache),
                       result |-> r.result, executed |-> r.executed,
                       cache_written |-> r.cache_written,
                       cache_key |-> r.cache_key,
                       cache_duration |-> r.cache_duration,
                       substituted |-> r.substituted,
                       ran |-> IF r.executed THEN Some(run) ELSE None,
                       started |-> r.started, cache_read |-> r.cache_read]
        /\ rs_hist' =
             IF r.executed /\ r.result.ok /\ cache_duration # None
             THEN [k \in DOMAIN rs_hist \cup {r.cache_key} |->
                     IF k = r.cache_key
                     THEN [options |-> r.result.options, stamp |-> r.now,
                           ttl |-> Unwrap(cache_duration),
                           substituted |-> r.substituted]
                     ELSE rs_hist[k]]
             ELSE rs_hist
        /\ UNCHANGED <<substVars, widgetVars, appVars, condVars, fileVars>>

\* One call of OptionResolver::resolve_from_script_sync.
ResolveScriptSync ==
    \E values \in ResolverBindings, run \in ScriptRuns :
      \E r \in {resolve_from_script_sync(now, ScriptCommand, values, run)} :
        /\ r.now <= MaxTime
        /\ now' = r.now
        /\ rs_last' = [NoResolution EXCEPT
                         !.op = "resolve_sync",
                         !.result = r.result,
                         !.executed = TRUE,
                         !.ran = Some(run),
                         !.started = r.started]
        /\ UNCHANGED <<cache, rs_hist>>
        /\ UNCHANGED <<substVars, widgetVars, appVars, condVars, fileVars>>

\* The keys under which the resolutions of this environment cache.
ResolverKeys ==
    {CacheKey(ScriptCommand, substitute_variables(ScriptCommand, values)) :
        values \in ResolverBindings}

\* One call of OptionCache::get.  It takes &self: the map is as before.
CacheRead ==
    \E key \in ResolverKeys :
      \E got \in {CacheGet(cache, key, now)} :
        /\ rs_last' = [NoResolution EXCEPT
                         !.op = "get",
                         !.cache_key = key,
                         !.started = now,
                         !.cache_read = TRUE,
                         !.prior = IF key \in DOMAIN rs_hist
                                   THEN Some(rs_hist[key]) ELSE None,
                         !.result = IF got # None THEN Ok(Unwrap(got)) ELSE Err(<<>>)]
        /\ UNCHANGED <<cache, now, rs_hist>>
        /\ UNCHANGED <<substVars, widgetVars, appVars, condVars, fileVars>>

\* Time passes between two calls.
Tick ==
    /\ now < MaxTime
    /\ now' = now + 1
    /\ UNCHANGED <<cache, rs_last, rs_hist>>
    /\ UNCHANGED <<substVars, widgetVars, appVars, condVars, fileVars>>

ResolverNext == ResolveScript \/ ResolveScriptSync \/ CacheRead \/ Tick

----------------------------------------------------------------------------
(* Numbers in edit buffers                                                 *)
(*                                                                         *)
(* An f64 is the integer number of FScale-ths it stands for: decimal       *)
(* strings of at most FracDigits fraction digits are held exactly.         *)

MaxBuf == 3

FracDigits == MaxBuf
FScale == 10 ^ FracDigits

VFloat(f) == [t |-> "Float", f |-> f]

Digits == {"0", "1", "2", "3", "4", "5", "6", "7", "8", "9"}

DigitValue(c) == CHOOSE d \in 0..9 : Digit(d) = c

RECURSIVE DigitsToNat(_)
DigitsToNat(s) ==
    IF s = <<>> THEN 0
    ELSE 10 * DigitsToNat(SubSeq(s, 1, Len(s) - 1)) + DigitValue(s[Len(s)])

\* str::parse::<f64> on a buffer: an optional sign, then digits with at most
\* one decimal point and at least one digit; None for any other buffer.
ParseF64(buffer) ==
    LET body == IF buffer # <<>> /\ buffer[1] \in {"-", "+"} THEN Tail(buffer) ELSE buffer
        dots == {i \in 1..Len(body) : body[i] = "."}
        dot == IF dots = {} THEN Len(body) + 1 ELSE CHOOSE i \in dots : TRUE
        int_part == SubSeq(body, 1, dot - 1)
        frac_part == SubSeq(body, dot + 1, Len(body))
        magnitude == DigitsToNat(int_part) * FScale
                     + DigitsToNat(frac_part) * 10 ^ (FracDigits - Len(frac_part))
    IN  IF /\ \A i \in 1..Len(body) : body[i] \in Digits \cup {"."}
           /\ Cardinality(dots) <= 1
           /\ \E i \in 1..Len(body) : body[i] \in Digits
           /\ Len(frac_part) <= FracDigits
        THEN Some(IF buffer[1] = "-" THEN -magnitude ELSE magnitude)
        ELSE None

\* str::parse::<i64>: an optional sign and at least one digit.
ParseI64(buffer) ==
    LET body == IF buffer # <<>> /\ buffer[1] \in {"-", "+"} THEN Tail(buffer) ELSE buffer
    IN  IF body # <<>> /\ \A i \in 1..Len(body) : body[i] \in Digits
        THEN Some(IF buffer[1] = "-" THEN -DigitsToNat(body) ELSE DigitsToNat(body))
        ELSE None

RECURSIVE FractionDigits(_, _)
FractionDigits(n, k) ==
    IF k = 0 THEN <<>> ELSE FractionDigits(n \div 10, k - 1) \o <<Digit(n % 10)>>

RECURSIVE StripTrailingZeros(_)
StripTrailingZeros(s) ==
    IF s # <<>> /\ s[Len(s)] = "0" THEN StripTrailingZeros(SubSeq(s, 1, Len(s) - 1)) ELSE s

\* f64::to_string: the shortest decimal form, without a fraction for whole
\* numbers.
F64ToString(f) ==
    LET a == IF f < 0 THEN -f ELSE f
        frac == StripTrailingZeros(FractionDigits(a % FScale, FracDigits))
    IN  (IF f < 0 THEN <<"-">> ELSE <<>>)
        \o NatToString(a \div FScale)
        \o (IF frac = <<>> THEN <<>> ELSE <<".">> \o frac)

----------------------------------------------------------------------------
(* Widgets (tui/widgets/)                                                  *)

\* A crossterm KeyEvent: its KeyCode, and the character of KeyCode::Char.
Key(code) == [code |-> code, c |-> ""]
CharKey(c) == [code |-> "Char", c |-> c]

\* WidgetResult
Continue == [kind |-> "Continue", value |-> VNull]
Changed(v) == [kind |-> "Changed", value |-> v]
Confirmed(v) == [kind |-> "Confirmed", value |-> v]
Cancelled == [kind |-> "Cancelled", value |-> VNull]

\* handle_key did not return: a String operation panicked.
Panicked == [kind |-> "Panicked", value |-> VNull]

\* The fields of all widget kinds in one record; a kind uses its own.
BlankWidget ==
    [kind |-> "", buffer |-> <<>>, cursor_pos |-> 0, state |-> "Normal",
     min |-> None, max |-> None, step |-> None, value |-> FALSE,
     options |-> <<>>, selected_index |-> 0,
     filtered_options |-> <<>>, search_buffer |-> <<>>, current_value |-> <<>>]

Step(w, res) == [w |-> w, res |-> res]

\* A String is its UTF-8 bytes.  An ASCII character is one byte; a two-byte
\* character is written as its own name followed by a continuation byte.
TwoByteChars == {"é"}

ContinuationByte == "cont"

Utf8(c) == IF c \in TwoByteChars THEN <<c, ContinuationByte>> ELSE <<c>>

\* str::is_char_boundary
IsCharBoundary(s, idx) ==
    \/ idx = 0
    \/ idx = Len(s)
    \/ (idx < Len(s) /\ s[idx + 1] # ContinuationByte)

\* String::insert(pos, c) and String::remove(pos), byte positions counted
\* from 0; both panic unless pos is a character boundary, and the callers
\* test that before they use the result.
StrInsert(s, pos, c) == SubSeq(s, 1, pos) \o Utf8(c) \o SubSeq(s, pos + 1, Len(s))
StrRemove(s, pos) ==
    SubSeq(s, 1, pos)
    \o SubSeq(s, pos + 1 + (IF s[pos + 1] \in TwoByteChars THEN 2 ELSE 1), Len(s))

\* String::push and String::pop work on whole characters.
StrPush(s, c) == s \o Utf8(c)
StrPop(s) ==
    IF s = <<>> THEN s
    ELSE IF s[Len(s)] = ContinuationByte THEN SubSeq(s, 1, Len(s) - 2)
    ELSE SubSeq(s, 1, Len(s) - 1)

\* ---- TextInput (text_input.rs) ----

TextInputNew(initial_value) ==
    [BlankWidget EXCEPT !.kind = "TextInput", !.buffer = initial_value,
                        !.cursor_pos = Len(initial_value)]

TextGetValue(w) == VString(w.buffer)

TextInsertChar(w, c) ==
    [w EXCEPT !.buffer = StrInsert(w.buffer, w.cursor_pos, c),
              !.cursor_pos = w.cursor_pos + 1]

TextDeleteChar(w) ==
    IF w.cursor_pos > 0
    THEN [w EXCEPT !.buffer = StrRemove(w.buffer, w.cursor_pos - 1),
                   !.cursor_pos = w.cursor_pos - 1]
    ELSE w

TextDeleteForward(w) ==
    IF w.cursor_pos < Len(w.buffer)
    THEN [w EXCEPT !.buffer = StrRemove(w.buffer, w.cursor_pos)]
    ELSE w

TextHandleKey(w, key) ==
    IF w.state # "Editing" THEN Step(w, Continue)
    ELSE CASE key.code = "Enter" ->
                Step([w EXCEPT !.state = "Normal"], Confirmed(TextGetValue(w)))
           [] key.code = "Esc" ->
                Step([w EXCEPT !.state = "Normal"], Cancelled)
           [] key.code = "Char" ->
                IF ~IsCharBoundary(w.buffer, w.cursor_pos) THEN Step(w, Panicked)
                ELSE LET w2 == TextInsertChar(w, key.c)
                     IN  Step(w2, Changed(TextGetValue(w2)))
           [] key.code = "Backspace" ->
                IF w.cursor_pos > 0 /\ ~IsCharBoundary(w.buffer, w.cursor_pos - 1)
                THEN Step(w, Panicked)
                ELSE LET w2 == TextDeleteChar(w) IN Step(w2, Changed(TextGetValue(w2)))
           [] key.code = "Delete" ->
                IF w.cursor_pos < Len(w.buffer) /\ ~IsCharBoundary(w.buffer, w.cursor_pos)
                THEN Step(w, Panicked)
                ELSE LET w2 == TextDeleteForward(w) IN Step(w2, Changed(TextGetValue(w2)))
           [] key.code = "Left" ->
                Step([w EXCEPT !.cursor_pos = IF @ > 0 THEN @ - 1 ELSE @], Continue)
           [] key.code = "Right" ->
                Step([w EXCEPT !.cursor_pos = IF @ < Len(w.buffer) THEN @ + 1 ELSE @],
                     Continue)
           [] key.code = "Home" -> Step([w EXCEPT !.cursor_pos = 0], Continue)
           [] key.code = "End" -> Step([w EXCEPT !.cursor_pos = Len(w.buffer)], Continue)
           [] OTHER -> Step(w, Continue)

TextSetValue(w, value) ==
    IF value.t = "String"
    THEN [w EXCEPT !.buffer = value.s, !.cursor_pos = Len(value.s)]
    ELSE w

\* ---- FloatInput (float_input.rs) ----

FloatInputNew(initial_value, min, max, step) ==
    [BlankWidget EXCEPT !.kind = "FloatInput",
                        !.buffer = F64ToString(initial_value),
                        !.cursor_pos = Len(F64ToString(initial_value)),
                        !.min = min, !.max = max, !.step = step]

FloatInsertChar(w, c) ==
    IF \/ c \in Digits
       \/ (c = "-" /\ w.cursor_pos = 0)
       \/ (c = "." /\ \A i \in 1..Len(w.buffer) : w.buffer[i] # ".")
    THEN [w EXCEPT !.buffer = StrInsert(w.buffer, w.cursor_pos, c),
                   !.cursor_pos = w.cursor_pos + 1]
    ELSE w

FloatDeleteChar(w) == TextDeleteChar(w)

\* FloatInput::validate (FloatValidate); FloatValidateIgnoringMax is the same
\* check without the upper bound.
FloatValidateIgnoringMax(w) ==
    LET num == ParseF64(w.buffer) IN
    IF num = None THEN None
    ELSE IF w.min # None /\ Unwrap(num) < Unwrap(w.min) THEN None
    ELSE num

FloatValidate(w) ==
    LET num == ParseF64(w.buffer) IN
    IF num = None THEN None
    ELSE IF w.min # None /\ Unwrap(num) < Unwrap(w.min) THEN None
    ELSE IF w.max # None /\ Unwrap(num) > Unwrap(w.max) THEN None
    ELSE num

FloatGetValue(w) ==
    IF FloatValidate(w) # None THEN VFloat(Unwrap(FloatValidate(w))) ELSE VString(w.buffer)

FloatWithBuffer(w, buffer) ==
    [w EXCEPT !.buffer = buffer, !.cursor_pos = Len(buffer)]

FloatStepUp(w) ==
    IF FloatValidate(w) # None /\ w.step # None
    THEN LET new_val == Unwrap(FloatValidate(w)) + Unwrap(w.step)
             w2 == FloatWithBuffer(w, F64ToString(new_val))
         IN  IF w.max = None \/ new_val <= Unwrap(w.max)
             THEN Step(w2, Changed(FloatGetValue(w2)))
             ELSE Step(w, Continue)
    ELSE Step(w, Continue)

FloatStepDown(w) ==
    IF FloatValidate(w) # None /\ w.step # None
    THEN LET new_val == Unwrap(FloatValidate(w)) - Unwrap(w.step)
             w2 == FloatWithBuffer(w, F64ToString(new_val))
         IN  IF w.min = None \/ new_val >= Unwrap(w.min)
             THEN Step(w2, Changed(FloatGetValue(w2)))
             ELSE Step(w, Continue)
    ELSE Step(w, Continue)

FloatHandleKey(w, key) ==
    IF w.state # "Editing" THEN Step(w, Continue)
    ELSE CASE key.code = "Enter" ->
                IF FloatValidate(w) # None
                THEN Step([w EXCEPT !.state = "Normal"],
                          Confirmed(VFloat(Unwrap(FloatValidate(w)))))
                ELSE Step(w, Continue)
           [] key.code = "Esc" ->
                Step([w EXCEPT !.state = "Normal"], Cancelled)
           [] key.code = "Char" ->
                LET w2 == FloatInsertChar(w, key.c) IN Step(w2, Changed(FloatGetValue(w2)))
           [] key.code = "Backspace" ->
                LET w2 == FloatDeleteChar(w) IN Step(w2, Changed(FloatGetValue(w2)))
           [] key.code = "Left" ->
                Step([w EXCEPT !.cursor_pos = IF @ > 0 THEN @ - 1 ELSE @], Continue)
           [] key.code = "Right" ->
                Step([w EXCEPT !.cursor_pos = IF @ < Len(w.buffer) THEN @ + 1 ELSE @],
                     Continue)
           [] key.code = "Up" -> FloatStepUp(w)
           [] key.code = "Down" -> FloatStepDown(w)
           [] OTHER -> Step(w, Continue)

\* Value::as_f64 is Some for every JSON number, integers included.
FloatSetValue(w, value) ==
    IF value.t = "Float" THEN FloatWithBuffer(w, F64ToString(value.f))
    ELSE IF value.t = "Number" THEN FloatWithBuffer(w, F64ToString(value.n * FScale))
    ELSE w

\* ---- NumberInput (number_input.rs): digits and one leading minus sign,
\* validated against min and max when the edit is confirmed ----

NumberInputNew(initial_value, min, max) ==
    [BlankWidget EXCEPT !.kind = "NumberInput",
                        !.buffer = IntToString(initial_value),
                        !.cursor_pos = Len(IntToString(initial_value)),
                        !.min = min, !.max = max]

NumberInsertChar(w, c) ==
    IF \/ (c \in Digits /\ ~(w.cursor_pos = 0 /\ w.buffer # <<>> /\ Head(w.buffer) = "-"))
       \/ (c = "-" /\ w.cursor_pos = 0 /\ \A i \in 1..Len(w.buffer) : w.buffer[i] # "-")
    THEN [w EXCEPT !.buffer = StrInsert(w.buffer, w.cursor_pos, c),
                   !.cursor_pos = w.cursor_pos + 1]
    ELSE w

NumberValidate(w) ==
    LET num == ParseI64(w.buffer) IN
    IF num = None THEN None
    ELSE IF w.min # None /\ Unwrap(num) < Unwrap(w.min) THEN None
    ELSE IF w.max # None /\ Unwrap(num) > Unwrap(w.max) THEN None
    ELSE num

NumberGetValue(w) ==
    IF NumberValidate(w) # None THEN VNumber(Unwrap(NumberValidate(w))) ELSE VString(w.buffer)

NumberHandleKey(w, key) ==
    IF w.state # "Editing" THEN Step(w, Continue)
    ELSE CASE key.code = "Enter" ->
                IF NumberValidate(w) # None
                THEN Step([w EXCEPT !.state = "Normal"],
                          Confirmed(VNumber(Unwrap(NumberValidate(w)))))
                ELSE Step(w, Continue)
           [] key.code = "Esc" ->
                Step([w EXCEPT !.state = "Normal"], Cancelled)
           [] key.code = "Char" ->
                LET w2 == NumberInsertChar(w, key.c) IN Step(w2, Changed(NumberGetValue(w2)))
           [] key.code = "Backspace" ->
                LET w2 == TextDeleteChar(w) IN Step(w2, Changed(NumberGetValue(w2)))
           [] key.code = "Left" ->
                Step([w EXCEPT !.cursor_pos = IF @ > 0 THEN @ - 1 ELSE @], Continue)
           [] key.code = "Right" ->
                Step([w EXCEPT !.cursor_pos = IF @ < Len(w.buffer) THEN @ + 1 ELSE @],
                     Continue)
           [] OTHER -> Step(w, Continue)

NumberSetValue(w, value) ==
    IF value.t = "Number"
    THEN [w EXCEPT !.buffer = IntToString(value.n), !.cursor_pos = Len(IntToString(value.n))]
    ELSE w

\* ---- Toggle (toggle.rs) ----

ToggleNew(initial_value) == [BlankWidget EXCEPT !.kind = "Toggle", !.value = initial_value]

ToggleGetValue(w) == VBool(w.value)

ToggleHandleKey(w, key) ==
    IF key.code = "Enter" \/ (key.code = "Char" /\ key.c = " ")
    THEN LET w2 == [w EXCEPT !.value = ~w.value] IN Step(w2, Confirmed(ToggleGetValue(w2)))
    ELSE Step(w, Continue)

ToggleSetValue(w, value) == IF value.t = "Bool" THEN [w EXCEPT !.value = value.b] ELSE w

\* ---- Dropdown (dropdown.rs) ----

\* options.iter().position(|o| o == val): an index from 0, or None.
Position(options, val) ==
    IF \E i \in 1..Len(options) : options[i] = val
    THEN Some((CHOOSE i \in 1..Len(options) :
                  options[i] = val /\ \A j \in 1..(i - 1) : options[j] # val) - 1)
    ELSE None

DropdownNew(options, initial_value) ==
    [BlankWidget EXCEPT
        !.kind = "Dropdown",
        !.options = options,
        !.selected_index =
            IF initial_value # None /\ Position(options, Unwrap(initial_value)) # None
            THEN Unwrap(Position(options, Unwrap(initial_value)))
            ELSE 0]

\* select_next and select_previous over a list of n options.
\* select_next that stops at the last option.
SelectNextWithoutWrap(w, n) ==
    IF n = 0 \/ w.selected_index = n - 1 THEN w
    ELSE [w EXCEPT !.selected_index = w.selected_index + 1]

SelectNext(w, n) ==
    IF n = 0 THEN w ELSE [w EXCEPT !.selected_index = (w.selected_index + 1) % n]

\* select_previous that leaves the highlight where it is.
SelectPreviousStaying(w, n) == w

SelectPrevious(w, n) ==
    IF n = 0 THEN w
    ELSE [w EXCEPT !.selected_index =
             IF w.selected_index = 0 THEN n - 1 ELSE w.selected_index - 1]

DropdownGetCurrentValue(w) ==
    IF w.selected_index < Len(w.options) THEN w.options[w.selected_index + 1] ELSE <<>>

DropdownGetValue(w) == VString(DropdownGetCurrentValue(w))

\* handle_key without the early return of a widget that is not Editing.
DropdownHandleKeyAnyState(w, key) ==
    CASE key.code = "Enter" ->
            Step([w EXCEPT !.state = "Normal"], Confirmed(DropdownGetValue(w)))
      [] key.code = "Esc" ->
            Step([w EXCEPT !.state = "Normal"], Cancelled)
      [] key.code = "Down" \/ (key.code = "Char" /\ key.c = "j") ->
            Step(SelectNext(w, Len(w.options)), Continue)
      [] key.code = "Up" \/ (key.code = "Char" /\ key.c = "k") ->
            Step(SelectPrevious(w, Len(w.options)), Continue)
      [] OTHER -> Step(w, Continue)

DropdownHandleKey(w, key) ==
    IF w.state # "Editing" THEN Step(w, Continue)
    ELSE CASE key.code = "Enter" ->
                Step([w EXCEPT !.state = "Normal"], Confirmed(DropdownGetValue(w)))
           [] key.code = "Esc" ->
                Step([w EXCEPT !.state = "Normal"], Cancelled)
           [] key.code = "Down" \/ (key.code = "Char" /\ key.c = "j") ->
                Step(SelectNext(w, Len(w.options)), Continue)
           [] key.code = "Up" \/ (key.code = "Char" /\ key.c = "k") ->
                Step(SelectPrevious(w, Len(w.options)), Continue)
           [] OTHER -> Step(w, Continue)

DropdownSetValue(w, value) ==
    IF value.t = "String" /\ Position(w.options, value.s) # None
    THEN [w EXCEPT !.selected_index = Unwrap(Position(w.options, value.s))]
    ELSE w

DropdownActivate(w) == [w EXCEPT !.state = "Editing"]

\* ---- SearchableDropdown (searchable_dropdown.rs) ----

\* char::to_lowercase, over the letters the model types.
LowerChar(c) == CASE c = "A" -> "a" [] c = "B" -> "b" [] OTHER -> c

ToLowercase(s) == [i \in 1..Len(s) |-> LowerChar(s[i])]

\* str::contains
Contains(s, pat) ==
    \E i \in 1..(Len(s) - Len(pat) + 1) : SubSeq(s, i, i + Len(pat) - 1) = pat

\* A filter that compares the options without lowering their case.
FilterOptionsCaseSensitive(options, search_lower) ==
    SelectSeq(options, LAMBDA o : Contains(o, search_lower))

\* Iterator::filter over a Vec
RECURSIVE FilterOptions(_, _)
FilterOptions(options, search_lower) ==
    IF options = <<>> THEN <<>>
    ELSE (IF Contains(ToLowercase(Head(options)), search_lower)
          THEN <<Head(options)>> ELSE <<>>)
         \o FilterOptions(Tail(options), search_lower)

SearchableDropdownNew(options, initial_value) ==
    [BlankWidget EXCEPT
        !.kind = "SearchableDropdown",
        !.options = options,
        !.filtered_options = options,
        !.current_value = IF initial_value # None THEN Unwrap(initial_value)
                          ELSE IF options # <<>> THEN Head(options) ELSE <<>>]

\* update_filter that keeps the highlight where it was.
SearchableUpdateFilterUnclamped(w) ==
    [w EXCEPT !.filtered_options = FilterOptions(w.options, ToLowercase(w.search_buffer))]

SearchableUpdateFilter(w) ==
    LET filtered == FilterOptions(w.options, ToLowercase(w.search_buffer))
    IN  [w EXCEPT
           !.filtered_options = filtered,
           !.selected_index = IF filtered = <<>> THEN 0
                              ELSE IF w.selected_index < Len(filtered) - 1
                                   THEN w.selected_index ELSE Len(filtered) - 1]

SearchableGetValue(w) == VString(w.current_value)

SearchableHandleKey(w, key) ==
    IF w.state # "Editing" THEN Step(w, Continue)
    ELSE CASE key.code = "Enter" ->
                IF w.filtered_options # <<>>
                THEN LET w2 == [w EXCEPT
                                  !.current_value = w.filtered_options[w.selected_index + 1],
                                  !.state = "Normal"]
                     IN  Step(w2, Confirmed(SearchableGetValue(w2)))
                ELSE Step(w, Continue)
           [] key.code = "Esc" ->
                Step([w EXCEPT !.state = "Normal"], Cancelled)
           [] key.code = "Down" \/ (key.code = "Char" /\ key.c = "j") ->
                Step(SelectNext(w, Len(w.filtered_options)), Continue)
           [] key.code = "Up" \/ (key.code = "Char" /\ key.c = "k") ->
                Step(SelectPrevious(w, Len(w.filtered_options)), Continue)
           [] key.code = "Char" ->
                Step(SearchableUpdateFilter([w EXCEPT !.search_buffer = StrPush(@, key.c)]),
                     Continue)
           [] key.code = "Backspace" ->
                Step(SearchableUpdateFilter(
                        [w EXCEPT !.search_buffer = StrPop(@)]),
                     Continue)
           [] OTHER -> Step(w, Continue)

SearchableSetValue(w, value) ==
    IF value.t = "String" THEN [w EXCEPT !.current_value = value.s] ELSE w

SearchableActivate(w) ==
    [w EXCEPT !.state = "Editing", !.search_buffer = <<>>,
              !.filtered_options = w.options, !.selected_index = 0]

\* ---- The Widget trait, dispatched on the widget's kind (base.rs) ----

WidgetHandleKey(w, key) ==
    CASE w.kind = "TextInput"   -> TextHandleKey(w, key)
      [] w.kind = "FloatInput"  -> FloatHandleKey(w, key)
      [] w.kind = "NumberInput" -> NumberHandleKey(w, key)
      [] w.kind = "Toggle"      -> ToggleHandleKey(w, key)
      [] w.kind = "Dropdown"    -> DropdownHandleKey(w, key)
      [] w.kind = "SearchableDropdown" -> SearchableHandleKey(w, key)

WidgetGetValue(w) ==
    CASE w.kind = "TextInput"   -> TextGetValue(w)
      [] w.kind = "FloatInput"  -> FloatGetValue(w)
      [] w.kind = "NumberInput" -> NumberGetValue(w)
      [] w.kind = "Toggle"      -> ToggleGetValue(w)
      [] w.kind = "Dropdown"    -> DropdownGetValue(w)
      [] w.kind = "SearchableDropdown" -> SearchableGetValue(w)

WidgetSetValue(w, value) ==
    CASE w.kind = "TextInput"   -> TextSetValue(w, value)
      [] w.kind = "FloatInput"  -> FloatSetValue(w, value)
      [] w.kind = "NumberInput" -> NumberSetValue(w, value)
      [] w.kind = "Toggle"      -> ToggleSetValue(w, value)
      [] w.kind = "Dropdown"    -> DropdownSetValue(w, value)
      [] w.kind = "SearchableDropdown" -> SearchableSetValue(w, value)

\* activate(): the buffer widgets enter Editing with the cursor at the end;
\* activate() with a Toggle that keeps its value.
WidgetActivateKeepingToggle(w) ==
    CASE w.kind = "Toggle" -> w
      [] w.kind = "Dropdown" -> DropdownActivate(w)
      [] w.kind = "SearchableDropdown" -> SearchableActivate(w)
      [] OTHER -> [w EXCEPT !.state = "Editing", !.cursor_pos = Len(w.buffer)]

\* a Toggle flips its value; the dropdowns open their list.
WidgetActivate(w) ==
    CASE w.kind = "Toggle" -> [w EXCEPT !.value = ~w.value]
      [] w.kind = "Dropdown" -> DropdownActivate(w)
      [] w.kind = "SearchableDropdown" -> SearchableActivate(w)
      [] OTHER -> [w EXCEPT !.state = "Editing", !.cursor_pos = Len(w.buffer)]

----------------------------------------------------------------------------
(* A widget on its own, driven by activate() and key events                *)

TypedChars == {"5", "-", ".", "a", "j"}

WidgetKeys ==
    {Key(code) : code \in {"Enter", "Esc", "Backspace", "Delete", "Left", "Right",
                           "Home", "End", "Up", "Down", "Tab"}}
    \cup {CharKey(c) : c \in TypedChars \cup TwoByteChars}

\* Bounds and step of the numeric widgets, as a schema declares them.
FloatMin == 0 * FScale
FloatMax == 5 * FScale
FloatStep == 5 * FScale
NumberMin == 0
NumberMax == 150

\* The options of the dropdowns.
WidgetOptions == << <<"a">>, <<"b">>, <<"A", "5">> >>

StandaloneWidgets ==
    {TextInputNew(<<>>), ToggleNew(FALSE),
     FloatInputNew(5 * FScale, None, None, None),
     FloatInputNew(5 * FScale, Some(FloatMin), Some(FloatMax), Some(FloatStep)),
     NumberInputNew(5, None, None),
     NumberInputNew(5, Some(NumberMin), Some(NumberMax)),
     DropdownNew(WidgetOptions, None),
     DropdownNew(WidgetOptions, Some(<<"b">>)),
     DropdownNew(<<>>, None),
     SearchableDropdownNew(WidgetOptions, None),
     SearchableDropdownNew(WidgetOptions, Some(<<"b">>))}

WidgetInit ==
    /\ wd \in StandaloneWidgets
    /\ wd_last = [op |-> "new", key |-> Key("None"), res |-> Continue]

WidgetIdle ==
    /\ wd = BlankWidget
    /\ wd_last = [op |-> "idle", key |-> Key("None"), res |-> Continue]

\* The owner of the widget calls activate().
WidgetActivateCall ==
    /\ wd_last.res # Panicked
    /\ wd' = WidgetActivate(wd)
    /\ wd_last' = [op |-> "activate", key |-> Key("None"), res |-> Continue]
    /\ UNCHANGED <<substVars, resolverVars, appVars, condVars, fileVars>>

\* The owner of the widget hands it one key event, unless an earlier event
\* ended the process.  The buffer of the model is kept within MaxBuf bytes.
WidgetKeyCall ==
    \E key \in WidgetKeys :
      \E r \in {WidgetHandleKey(wd, key)} :
        /\ wd_last.res # Panicked
        /\ Len(r.w.buffer) <= MaxBuf
        /\ Len(r.w.search_buffer) <= MaxBuf
        /\ wd' = r.w
        /\ wd_last' = [op |-> "key", key |-> key, res |-> r.res]
        /\ UNCHANGED <<substVars, resolverVars, appVars, condVars, fileVars>>

WidgetNext == WidgetActivateCall \/ WidgetKeyCall

----------------------------------------------------------------------------
(* The application controller SchemaTUI (tui/app.rs)                       *)

MaxHandlers == 2

\* FieldType, in one record shape; an Enum holds the values of its Static
\* option source.
StringType(default) == [type |-> "String", default |-> default,
                        min |-> None, max |-> None, step |-> None, options |-> <<>>]
BooleanType(default) == [type |-> "Boolean", default |-> Some(default),
                         min |-> None, max |-> None, step |-> None, options |-> <<>>]
FloatType(default, min, max, step) ==
    [type |-> "Float", default |-> default, min |-> min, max |-> max, step |-> step,
     options |-> <<>>]
NumberType(default, min, max) ==
    [type |-> "Number", default |-> default, min |-> min, max |-> max, step |-> None,
     options |-> <<>>]
\* OptionSource: Static carries its values in the field type's options; the
\* other sources carry the name of a provider, a command or a glob pattern.
OptionSource(type, name) == [type |-> type, name |-> name]

\* OptionSource::Script with its command and cache_duration.
ScriptSource(command, cache_duration) ==
    [type |-> "script", name |-> command, cache_duration |-> cache_duration]

EnumType(options, default) ==
    [type |-> "Enum", default |-> default, min |-> None, max |-> None, step |-> None,
     options |-> options, options_source |-> OptionSource("static", <<>>)]

\* FieldType::Enum with options that are resolved when the widget is built.
EnumFrom(options_source, default) ==
    [type |-> "Enum", default |-> default, min |-> None, max |-> None, step |-> None,
     options |-> <<>>, options_source |-> options_source]

SchemaField(id, field_type, ui_widget) ==
    [id |-> id, field_type |-> field_type, ui_widget |-> ui_widget]

SchemaSection(id, fields, visible_when) ==
    [id |-> id, fields |-> fields, visible_when |-> visible_when]

\* The sections of a schema with a field of each buffer widget and a toggle.
Schema ==
    <<SchemaSection(<<"g">>,
                    <<SchemaField(<<"n">>, StringType(None), "TextInput"),
                      SchemaField(<<"a">>, BooleanType(FALSE), "Toggle")>>,
                    None),
      SchemaSection(<<"t">>,
                    <<SchemaField(<<"l">>,
                                  FloatType(Some(5 * FScale), Some(FloatMin), Some(FloatMax),
                                            Some(FloatStep)),
                                  "NumberInput")>>,
                    None)>>

\* The sections of a schema of Enum fields with Static options, one without
\* and one with a default.
EnumOptions == << <<"a">>, <<"b">> >>

EnumSchema ==
    <<SchemaSection(<<"e">>,
                    <<SchemaField(<<"m">>, EnumType(EnumOptions, None), "Dropdown"),
                      SchemaField(<<"d">>, EnumType(EnumOptions, Some(<<"b">>)), "Dropdown")>>,
                    None)>>

\* The schema of the field general.theme: Enum with the Static options Light,
\* Dark and Auto and the default Dark.
ThemeOptions ==
    << <<"L", "i", "g", "h", "t">>, <<"D", "a", "r", "k">>, <<"A", "u", "t", "o">> >>

ThemeSchema ==
    <<SchemaSection(<<"g", "e", "n", "e", "r", "a", "l">>,
                    <<SchemaField(<<"t", "h", "e", "m", "e">>,
                                  EnumType(ThemeOptions, Some(<<"D", "a", "r", "k">>)),
                                  "Dropdown")>>,
                    None)>>

\* The sections of a schema whose ui_widget does not follow the field type:
\* a Boolean field that declares no ui_widget (the default is TextInput) and
\* a String field shown with a FilePicker.
MismatchedSchema ==
    <<SchemaSection(<<"m">>,
                    <<SchemaField(<<"b">>, BooleanType(FALSE), "TextInput"),
                      SchemaField(<<"p">>, StringType(None), "FilePicker")>>,
                    None)>>

\* The sections of two schemas of Enum fields whose options are resolved: from
\* a provider nobody registered and a script, and from a registered function
\* and a file list.
ResolvedSchema ==
    <<SchemaSection(<<"p">>,
                    <<SchemaField(<<"u">>, EnumFrom(OptionSource("provider", "unknown"), None),
                                  "Dropdown"),
                      SchemaField(<<"s">>, EnumFrom(ScriptSource(<<"l", "s">>, Some(MaxTTL)), None),
                                  "Dropdown")>>,
                    None)>>

ListedSchema ==
    <<SchemaSection(<<"p">>,
                    <<SchemaField(<<"f">>, EnumFrom(OptionSource("function", "themes"), None),
                                  "DropdownSearchable"),
                      SchemaField(<<"l">>, EnumFrom(OptionSource("file_list", "*.toml"), None),
                                  "Dropdown")>>,
                    None)>>

\* The sections of a schema with visibility conditions: h is shown while its
\* toggle h.v is false, k and z while the toggle k.u is not true; z has no
\* fields.
ConditionalSchema ==
    <<SchemaSection(<<"h">>,
                    <<SchemaField(<<"v">>, BooleanType(FALSE), "Toggle")>>,
                    Some(<<" ", "h", ".", "v", " ", "=", "=", " ", "f", "a", "l", "s", "e", " ">>)),
      SchemaSection(<<"k">>,
                    <<SchemaField(<<"u">>, BooleanType(FALSE), "Toggle")>>,
                    Some(<<"k", ".", "u", "!", "=", "t", "r", "u", "e">>)),
      SchemaSection(<<"z">>,
                    <<>>,
                    Some(<<"k", ".", "u", " ", "!", "=", " ", "t", "r", "u", "e">>))>>

\* format!("{}.{}", section.id, field.id)
FieldKey(section, field) == section.id \o <<".">> \o field.id

\* SchemaTUI::get_field_default
GetFieldDefault(field_type) ==
    IF field_type.default = None THEN None
    ELSE CASE field_type.type = "String"  -> Some(VString(Unwrap(field_type.default)))
           [] field_type.type = "Boolean" -> Some(VBool(Unwrap(field_type.default)))
           [] field_type.type = "Number"  -> Some(VNumber(Unwrap(field_type.default)))
           [] field_type.type = "Float"   -> Some(VFloat(Unwrap(field_type.default)))
           [] field_type.type = "Enum"    -> Some(VString(Unwrap(field_type.default)))

\* A map with key bound to value (HashMap::insert).
MapInsert(m, key, value) ==
    [k \in DOMAIN m \cup {key} |-> IF k = key THEN value ELSE m[k]]

\* A map without key (HashMap::remove).
MapRemove(m, key) == [k \in DOMAIN m \ {key} |-> m[k]]

\* SchemaTUI::new: the initial values, completed with the schema's defaults.
RECURSIVE MergeDefaults(_, _, _, _)
MergeDefaults(schema, vals, s, f) ==
    IF s > Len(schema) THEN vals
    ELSE IF f > Len(schema[s].fields) THEN MergeDefaults(schema, vals, s + 1, 1)
    ELSE LET field == schema[s].fields[f]
             field_key == FieldKey(schema[s], field)
             default == GetFieldDefault(field.field_type)
         IN  IF field_key \notin DOMAIN vals /\ default # None
             THEN MergeDefaults(schema, MapInsert(vals, field_key, Unwrap(default)), s, f + 1)
             ELSE MergeDefaults(schema, vals, s, f + 1)

\* Sections and fields are indexed from 0, as in the source.
GetCurrentSection(c) ==
    IF c.current_section < Len(c.schema) THEN Some(c.schema[c.current_section + 1]) ELSE None

GetCurrentField(c) ==
    IF GetCurrentSection(c) # None
       /\ c.current_field < Len(Unwrap(GetCurrentSection(c)).fields)
    THEN Some(Unwrap(GetCurrentSection(c)).fields[c.current_field + 1])
    ELSE None

GetCurrentFieldKey(c) ==
    IF GetCurrentField(c) # None
    THEN FieldKey(Unwrap(GetCurrentSection(c)), Unwrap(GetCurrentField(c)))
    ELSE <<>>

\* Value::as_str, as_bool, as_i64, as_f64
AsStr(v) == IF v.t = "String" THEN Some(v.s) ELSE None
AsBool(v) == IF v.t = "Bool" THEN Some(v.b) ELSE None
AsI64(v) == IF v.t = "Number" THEN Some(v.n) ELSE None
AsF64(v) == IF v.t = "Float" THEN Some(v.f)
            ELSE IF v.t = "Number" THEN Some(v.n * FScale) ELSE None

\* a.or(b).unwrap_or(c) over Options
OrElse(a, b, c) == IF a # None THEN Unwrap(a) ELSE IF b # None THEN Unwrap(b) ELSE c

\* SchemaTUI::build_widget_for_field
\* OptionResolver::resolve_from_provider
resolve_from_provider(option_resolver, name) ==
    IF name \notin DOMAIN option_resolver.providers
    THEN Err(<<"Unknown option provider: ", name>>)
    ELSE option_resolver.providers[name]

\* ---- regex::Regex, for patterns of the shape pre([a-c]+)post, with the
\* group optional (pre([a-c]+)?post) or absent (pre), searched anywhere in the
\* text; a pattern that does not compile has valid = FALSE ----

Regex(valid, pre, group, post) ==
    [valid |-> valid, pre |-> pre, group |-> group, post |-> post]

Letters == {"a", "b", "c"}

IsPrefixAt(lit, s, i) ==
    /\ i + Len(lit) - 1 <= Len(s)
    /\ \A j \in 1..Len(lit) : s[i + j - 1] = lit[j]

\* The lengths k of a letter run at position i after which post follows.
GroupLengths(re, s, i) ==
    {k \in 1..(Len(s) - i + 1) :
        /\ \A j \in i..(i + k - 1) : s[j] \in Letters
        /\ IsPrefixAt(re.post, s, i + k)}

Longest(lengths) == CHOOSE k \in lengths : \A other \in lengths : other <= k

\* A match that starts at position i: None, or Some of what group 1 holds
\* (None when group 1 did not take part or does not exist).
MatchFrom(re, s, i) ==
    IF ~IsPrefixAt(re.pre, s, i) THEN None
    ELSE LET g == i + Len(re.pre)
             lengths == GroupLengths(re, s, g)
         IN  IF re.group = "absent" THEN Some(None)
             ELSE IF lengths # {}
                  THEN Some(Some(SubSeq(s, g, g + Longest(lengths) - 1)))
             ELSE IF re.group = "optional" /\ IsPrefixAt(re.post, s, g) THEN Some(None)
             ELSE None

\* Regex::captures: the leftmost match.
RegexCaptures(re, s) ==
    LET starts == {i \in 1..(Len(s) + 1) : MatchFrom(re, s, i) # None}
    IN  IF starts = {} THEN None
        ELSE MatchFrom(re, s, CHOOSE i \in starts : \A other \in starts : i <= other)

\* Path::file_name
RECURSIVE FileName(_)
FileName(path) ==
    IF \A i \in 1..Len(path) : path[i] # "/" THEN path
    ELSE FileName(Tail(path))

\* The body of the loop of resolve_from_file_list for one path: None for
\* `continue`.
DisplayName(path, extract) ==
    IF extract # None
    THEN LET caps == RegexCaptures(Unwrap(extract), path)
         IN  IF caps # None
             THEN (IF Unwrap(caps) # None THEN Unwrap(caps) ELSE Some(FileName(path)))
             ELSE None
    ELSE Some(FileName(path))

RECURSIVE CollectNames(_, _)
CollectNames(paths, extract) ==
    IF paths = <<>> THEN <<>>
    ELSE LET name == DisplayName(Head(paths), extract)
         IN  (IF name = None THEN <<>> ELSE <<Unwrap(name)>>)
             \o CollectNames(Tail(paths), extract)

\* OptionResolver::resolve_from_file_list, glob standing for what glob::glob
\* gives for directory/pattern: an error for a malformed pattern, the
\* matched paths otherwise.  Regex::new runs inside the loop, so a pattern
\* that does not compile is an error only when there is a path.
resolve_from_file_list(glob, extract) ==
    IF ~glob.ok THEN glob
    ELSE IF glob.options # <<>> /\ extract # None /\ ~Unwrap(extract).valid
    THEN Err(<<"regex parse error">>)
    ELSE Ok(CollectNames(glob.options, extract))

\* The match on options_source in the Enum arm of build_widget_for_field.
ResolveOptions(c, field_type) ==
    LET source == field_type.options_source
    IN  CASE source.type = "static" -> Ok(field_type.options)
          [] source.type \in {"function", "provider"} ->
                resolve_from_provider(c.option_resolver, source.name)
          [] source.type = "script" ->
                resolve_from_script_sync(0, source.name, c.values,
                                         c.option_resolver.run).result
          [] source.type = "file_list" ->
                resolve_from_file_list(c.option_resolver.glob, None)

\* `Ok(opts) => opts` with the error in the place of the options otherwise.
OptionsOrError(resolved) == IF resolved.ok THEN resolved.options ELSE resolved.error

\* `Ok(opts) => opts, Err(_) => vec![]`
OptionsOrEmpty(resolved) == IF resolved.ok THEN resolved.options ELSE <<>>

BuildWidgetForField(c, field) ==
    LET field_key == FieldKey(c.schema[c.current_section + 1], field)
        stored == IF field_key \in DOMAIN c.values THEN Some(c.values[field_key]) ELSE None
        ft == field.field_type
    IN  CASE ft.type = "String" ->
               TextInputNew(OrElse(IF stored = None THEN None ELSE AsStr(Unwrap(stored)),
                                   ft.default, <<>>))
          [] ft.type = "Boolean" ->
               ToggleNew(OrElse(IF stored = None THEN None ELSE AsBool(Unwrap(stored)),
                                None, Unwrap(ft.default)))
          [] ft.type = "Number" ->
               NumberInputNew(OrElse(IF stored = None THEN None ELSE AsI64(Unwrap(stored)),
                                     ft.default, 0),
                              ft.min, ft.max)
          [] ft.type = "Float" ->
               FloatInputNew(OrElse(IF stored = None THEN None ELSE AsF64(Unwrap(stored)),
                                    ft.default, 0),
                             ft.min, ft.max, ft.step)
          [] ft.type = "Enum" ->
               LET options == OptionsOrEmpty(ResolveOptions(c, ft))
                   initial == IF stored # None /\ AsStr(Unwrap(stored)) # None
                              THEN AsStr(Unwrap(stored)) ELSE ft.default
               IN  IF field.ui_widget = "DropdownSearchable"
                   THEN SearchableDropdownNew(options, initial)
                   ELSE DropdownNew(options, initial)

\* What a session shows of its effects: the calls of save_config and of the
\* change handlers, in the order they happen.
SaveEvent(c, save_ok) ==
    [e |-> "save_config", key |-> <<>>, value |-> VNull, handler |-> 0,
     map |-> c.values, written |-> (c.config_path # None /\ save_ok)]

HandlerEvent(handler, key, value) ==
    [e |-> "handler", key |-> key, value |-> value, handler |-> handler,
     map |-> <<>>, written |-> FALSE]

\* Command::new("sh").arg("-c").arg(command).output()
ScriptEvent(command) ==
    [e |-> "sh", key |-> command, value |-> VNull, handler |-> 0,
     map |-> <<>>, written |-> FALSE]

\* The processes that building the widget of the field starts: the script of
\* an Enum field with a Script source.
ScriptsRun(c, field) ==
    IF field.field_type.type = "Enum" /\ field.field_type.options_source.type = "script"
    THEN <<ScriptEvent(substitute_variables(field.field_type.options_source.name,
                                            c.values))>>
    ELSE <<>>

\* SchemaTUI::save_config: the whole value map goes to the config path, when
\* there is one and the write succeeds.
SaveConfig(c, save_ok) == [c EXCEPT !.events = Append(@, SaveEvent(c, save_ok))]

\* The outcomes the write of save_config can have: without a config path
\* nothing is written, and nothing can fail.
WriteOutcomes(c) == IF c.config_path = None THEN {TRUE} ELSE BOOLEAN

\* The loop of fire_change: every handler, in the order of change_handlers.
CallHandlers(c, key, value) ==
    [c EXCEPT !.events =
        @ \o [i \in 1..Len(c.change_handlers) |->
                HandlerEvent(c.change_handlers[i], key, value)]]

FireChangeHandlersFirst(c, key, value, save_ok) ==
    SaveConfig(CallHandlers([c EXCEPT !.values = MapInsert(c.values, key, value)],
                            key, value),
               save_ok)

FireChangeUnlessSaveFails(c, key, value, save_ok) ==
    IF c.config_path # None /\ ~save_ok
    THEN SaveConfig(c, save_ok)
    ELSE CallHandlers(SaveConfig([c EXCEPT !.values = MapInsert(c.values, key, value)],
                                 save_ok),
                      key, value)

\* SchemaTUI::fire_change: merge, save (an error is only logged), then call
\* the handlers.
FireChange(c, key, value, save_ok) ==
    CallHandlers(SaveConfig([c EXCEPT !.values = MapInsert(c.values, key, value)], save_ok),
                 key, value)

\* The Confirmed arm of handle_edit_mode, c holding the widget after the key.
ConfirmedArmKeepingWidget(c, field_key, value, save_ok) ==
    [FireChange(c, field_key, value, save_ok) EXCEPT
        !.edit_mode = FALSE,
        !.active_field = None,
        !.message = "Saved"]

ConfirmedArm(c, field_key, value, save_ok) ==
    [FireChange(c, field_key, value, save_ok) EXCEPT
        !.edit_mode = FALSE,
        !.active_field = None,
        !.active_widgets = MapRemove(c.active_widgets, field_key),
        !.message = "Saved"]

\* The Cancelled arm of handle_edit_mode.
CancelledArmSaving(c) ==
    [SaveConfig(c, TRUE) EXCEPT
        !.edit_mode = FALSE, !.active_field = None, !.message = "Cancelled"]

CancelledArm(c) ==
    [c EXCEPT !.edit_mode = FALSE, !.active_field = None, !.message = "Cancelled"]

\* The Changed arm of handle_edit_mode.
ChangedArm(c, field_key, value, save_ok) == FireChange(c, field_key, value, save_ok)

\* The match of handle_edit_mode on r, what the widget's handle_key left and
\* returned.
EditModeArms(c, field_key, r, save_ok) ==
    LET c2 == [c EXCEPT !.active_widgets[field_key] = r.w, !.result = r.res]
    IN  CASE r.res.kind = "Confirmed" -> ConfirmedArm(c2, field_key, r.res.value, save_ok)
          [] r.res.kind = "Cancelled" -> CancelledArm(c2)
          [] r.res.kind = "Changed"   -> ChangedArm(c2, field_key, r.res.value, save_ok)
          [] r.res.kind = "Continue"  -> c2

\* SchemaTUI::handle_edit_mode
HandleEditMode(c, key, save_ok) ==
    IF c.active_field # None /\ Unwrap(c.active_field) \in DOMAIN c.active_widgets
    THEN EditModeArms(c, Unwrap(c.active_field),
                      WidgetHandleKey(c.active_widgets[Unwrap(c.active_field)], key),
                      save_ok)
    ELSE c

\* SchemaTUI::next_field and previous_field
NextField(c) ==
    LET field_count == IF GetCurrentSection(c) = None THEN 0
                       ELSE Len(Unwrap(GetCurrentSection(c)).fields)
    IN  IF field_count > 0
        THEN [c EXCEPT !.current_field = (c.current_field + 1) % field_count]
        ELSE c

\* previous_field that stays on the first field.
PreviousFieldWithoutWrap(c) ==
    LET field_count == IF GetCurrentSection(c) = None THEN 0
                       ELSE Len(Unwrap(GetCurrentSection(c)).fields)
    IN  IF field_count > 0
        THEN [c EXCEPT !.current_field =
                 IF c.current_field = 0 THEN 0 ELSE c.current_field - 1]
        ELSE c

PreviousField(c) ==
    LET field_count == IF GetCurrentSection(c) = None THEN 0
                       ELSE Len(Unwrap(GetCurrentSection(c)).fields)
    IN  IF field_count > 0
        THEN [c EXCEPT !.current_field =
                 IF c.current_field = 0 THEN field_count - 1 ELSE c.current_field - 1]
        ELSE c

\* str::split_once(pat): the texts before and after the first occurrence.
SplitOnce(s, pat) ==
    LET hits == {i \in 1..(Len(s) - Len(pat) + 1) : SubSeq(s, i, i + Len(pat) - 1) = pat}
    IN  IF hits = {} THEN None
        ELSE LET i == CHOOSE h \in hits : \A g \in hits : h <= g
             IN  Some(<<SubSeq(s, 1, i - 1), SubSeq(s, i + Len(pat), Len(s))>>)

\* str::trim_matches(ch)
RECURSIVE TrimMatches(_, _)
TrimMatches(s, ch) ==
    IF s # <<>> /\ Head(s) = ch THEN TrimMatches(Tail(s), ch)
    ELSE IF s # <<>> /\ s[Len(s)] = ch THEN TrimMatches(SubSeq(s, 1, Len(s) - 1), ch)
    ELSE s

\* The arms of evaluate_condition for `==` and for `!=`; a condition that
\* cannot be evaluated is true.
\* The `==` arm with an absent key treated as not satisfied.
ConditionEqualsFailClosed(field_key, expected_value, values) ==
    IF field_key \notin DOMAIN values THEN FALSE
    ELSE LET actual == values[field_key]
         IN  CASE actual.t = "Bool" ->
                    IF expected_value = <<"t", "r", "u", "e">> THEN actual.b
                    ELSE IF expected_value = <<"f", "a", "l", "s", "e">> THEN ~actual.b
                    ELSE TRUE
               [] actual.t = "String" ->
                    actual.s = TrimMatches(TrimMatches(expected_value, "\""), "'")
               [] actual.t = "Number" ->
                    IF ParseI64(expected_value) # None
                    THEN actual.n = Unwrap(ParseI64(expected_value))
                    ELSE TRUE
               [] OTHER -> TRUE

ConditionEquals(field_key, expected_value, values) ==
    IF field_key \notin DOMAIN values THEN TRUE
    ELSE LET actual == values[field_key]
         IN  CASE actual.t = "Bool" ->
                    IF expected_value = <<"t", "r", "u", "e">> THEN actual.b
                    ELSE IF expected_value = <<"f", "a", "l", "s", "e">> THEN ~actual.b
                    ELSE TRUE
               [] actual.t = "String" ->
                    actual.s = TrimMatches(TrimMatches(expected_value, "\""), "'")
               [] actual.t = "Number" ->
                    IF ParseI64(expected_value) # None
                    THEN actual.n = Unwrap(ParseI64(expected_value))
                    ELSE TRUE
               [] OTHER -> TRUE

\* The `!=` arm with an absent key treated as not satisfied.
ConditionDiffersFailClosed(field_key, expected_value, values) ==
    IF field_key \notin DOMAIN values THEN FALSE
    ELSE LET actual == values[field_key]
         IN  CASE actual.t = "Bool" ->
                    IF expected_value = <<"t", "r", "u", "e">> THEN ~actual.b
                    ELSE IF expected_value = <<"f", "a", "l", "s", "e">> THEN actual.b
                    ELSE TRUE
               [] actual.t = "String" ->
                    actual.s # TrimMatches(TrimMatches(expected_value, "\""), "'")
               [] OTHER -> TRUE

ConditionDiffers(field_key, expected_value, values) ==
    IF field_key \notin DOMAIN values THEN TRUE
    ELSE LET actual == values[field_key]
         IN  CASE actual.t = "Bool" ->
                    IF expected_value = <<"t", "r", "u", "e">> THEN ~actual.b
                    ELSE IF expected_value = <<"f", "a", "l", "s", "e">> THEN actual.b
                    ELSE TRUE
               [] actual.t = "String" ->
                    actual.s # TrimMatches(TrimMatches(expected_value, "\""), "'")
               [] OTHER -> TRUE

\* conditions::evaluate_condition
evaluate_condition(condition, values) ==
    LET trimmed == Trim(condition)
        eq == SplitOnce(trimmed, <<"=", "=">>)
        ne == SplitOnce(trimmed, <<"!", "=">>)
    IN  IF eq # None
        THEN ConditionEquals(Trim(Unwrap(eq)[1]), Trim(Unwrap(eq)[2]), values)
        ELSE IF ne # None
        THEN ConditionDiffers(Trim(Unwrap(ne)[1]), Trim(Unwrap(ne)[2]), values)
        ELSE TRUE

\* SchemaTUI::get_visible_sections: the indices (from 0) of the sections whose
\* visible_when is absent or holds of the values, in schema order.
RECURSIVE VisibleFrom(_, _)
VisibleFrom(c, i) ==
    IF i > Len(c.schema) THEN <<>>
    ELSE (IF c.schema[i].visible_when = None
             \/ evaluate_condition(Unwrap(c.schema[i].visible_when), c.values)
          THEN <<i - 1>> ELSE <<>>)
         \o VisibleFrom(c, i + 1)

\* The list of all sections, whatever their visible_when.
GetAllSections(c) == [i \in 1..Len(c.schema) |-> i - 1]

GetVisibleSections(c) == VisibleFrom(c, 1)

PositionIn(seq, x) ==
    IF \E i \in 1..Len(seq) : seq[i] = x
    THEN Some(CHOOSE i \in 1..Len(seq) : seq[i] = x /\ \A j \in 1..(i - 1) : seq[j] # x)
    ELSE None

\* SchemaTUI::next_section and previous_section
NextSection(c) ==
    LET visible == GetVisibleSections(c)
        current_pos == PositionIn(visible, c.current_section)
    IN  IF visible = <<>> THEN c
        ELSE [c EXCEPT
                !.current_section =
                    IF current_pos # None
                    THEN visible[(Unwrap(current_pos) % Len(visible)) + 1]
                    ELSE visible[1],
                !.current_field = 0]

PreviousSection(c) ==
    LET visible == GetVisibleSections(c)
        current_pos == PositionIn(visible, c.current_section)
    IN  IF visible = <<>> THEN c
        ELSE [c EXCEPT
                !.current_section =
                    IF current_pos # None
                    THEN IF Unwrap(current_pos) = 1 THEN visible[Len(visible)]
                         ELSE visible[Unwrap(current_pos) - 1]
                    ELSE visible[1],
                !.current_field = 0]

\* SchemaTUI::activate_current_field
ActivateCurrentField(c, save_ok) ==
    IF GetCurrentField(c) = None THEN c
    ELSE LET field == Unwrap(GetCurrentField(c))
             field_key == GetCurrentFieldKey(c)
             wt == field.ui_widget
             built == IF field_key \in DOMAIN c.active_widgets
                      THEN c.active_widgets[field_key]
                      ELSE BuildWidgetForField(c, field)
             seeded == IF field_key \in DOMAIN c.values
                       THEN WidgetSetValue(built, c.values[field_key])
                       ELSE built
             widget == WidgetActivate(seeded)
             c2 == [c EXCEPT !.active_widgets = MapInsert(c.active_widgets, field_key, widget),
                             !.events = IF field_key \in DOMAIN c.active_widgets THEN @
                                        ELSE @ \o ScriptsRun(c, field)]
             c3 == IF wt \in {"TextInput", "NumberInput", "Dropdown", "DropdownSearchable"}
                   THEN [c2 EXCEPT !.edit_mode = TRUE, !.active_field = Some(field_key)]
                   ELSE c2
         IN  IF wt = "Toggle"
             THEN FireChange(c3, field_key, WidgetGetValue(widget), save_ok)
             ELSE c3

\* The arm of the match of handle_navigation_mode that a key selects.
NavigationArm(key) ==
    CASE key.code = "Esc" \/ (key.code = "Char" /\ key.c = "q") -> "quit"
      [] key.code \in {"Tab", "Right"} \/ (key.code = "Char" /\ key.c = "l") -> "next_section"
      [] key.code \in {"BackTab", "Left"} \/ (key.code = "Char" /\ key.c = "h") ->
            "previous_section"
      [] key.code = "Down" \/ (key.code = "Char" /\ key.c = "j") -> "next_field"
      [] key.code = "Up" \/ (key.code = "Char" /\ key.c = "k") -> "previous_field"
      [] key.code = "Enter" \/ (key.code = "Char" /\ key.c = " ") -> "activate_current_field"
      [] OTHER -> "none"

\* SchemaTUI::handle_navigation_mode
HandleNavigationMode(c, key, save_ok) ==
    LET arm == NavigationArm(key)
    IN  CASE arm = "quit" -> [c EXCEPT !.should_quit = TRUE]
          [] arm = "next_section" -> NextSection(c)
          [] arm = "previous_section" -> PreviousSection(c)
          [] arm = "next_field" -> NextField(c)
          [] arm = "previous_field" -> PreviousField(c)
          [] arm = "activate_current_field" -> ActivateCurrentField(c, save_ok)
          [] OTHER -> c

\* SchemaTUI::handle_key
\* handle_key that takes every key for a navigation key.
HandleKeyIgnoringMode(c, key, save_ok) == HandleNavigationMode(c, key, save_ok)

HandleKey(c, key, save_ok) ==
    IF c.edit_mode THEN HandleEditMode(c, key, save_ok)
    ELSE HandleNavigationMode(c, key, save_ok)

----------------------------------------------------------------------------
(* A session of the controller: construction, on_change calls, then keys   *)

AppKeys ==
    {Key(code) : code \in {"Enter", "Esc", "Backspace", "Up", "Down", "Tab", "BackTab"}}
    \cup {CharKey("5")}

HandlerIds == 1..MaxHandlers

NoResult == [kind |-> "None", value |-> VNull]

\* The fields of SchemaTUI after new().
\* OptionResolver::new, and the resolvers an embedding application hands
\* over: providers registered by name with what their get_options returns, what
\* running a script gives, and what the glob of a file list gives.
OptionResolverNew ==
    [providers |-> <<>>, run |-> ScriptRun(FALSE, FALSE, <<>>, "", 0), glob |-> Ok(<<>>)]

FailingResolver ==
    [providers |-> ("themes" :> Err(<<"provider failed">>)),
     run |-> ScriptRun(TRUE, FALSE, <<>>, "denied", 0),
     glob |-> Err(<<"Pattern syntax error">>)]

WorkingResolver ==
    [providers |-> ("themes" :> Ok(<< <<"a">>, <<"b">> >>)),
     run |-> ScriptRun(TRUE, TRUE, <<"a", "\n">>, "", 0),
     glob |-> Ok(<< <<"a">> >>)]

SchemaTUINew(schema, initial_values, option_resolver, config_path) ==
    [schema |-> schema,
     option_resolver |-> option_resolver,
     values |-> MergeDefaults(schema, initial_values, 1, 1),
     config_path |-> config_path,
     current_section |-> 0,
     current_field |-> 0,
     edit_mode |-> FALSE,
     active_field |-> None,
     active_widgets |-> <<>>,
     change_handlers |-> <<>>,
     message |-> "",
     should_quit |-> FALSE]

InitialValues == {<<>>, MapInsert(<<>>, <<"g", ".", "n">>, VString(<<"5">>))}

ConfigPaths == {None, Some("config.toml")}

\* What the embedding application constructs the controller with.
Sessions ==
    {<<Schema, initial_values, config_path>> :
        initial_values \in InitialValues, config_path \in ConfigPaths}
    \cup {<<EnumSchema, <<>>, config_path>> : config_path \in ConfigPaths}
    \cup {<<ConditionalSchema, <<>>, None>>}
    \cup {<<ResolvedSchema, <<>>, None>>, <<ListedSchema, <<>>, None>>}
    \cup {<<ThemeSchema, <<>>, None>>, <<MismatchedSchema, <<>>, None>>}

AppInit ==
    /\ \E session \in Sessions :
          \E option_resolver \in IF session[1] \in {ResolvedSchema, ListedSchema}
                                  THEN {FailingResolver, WorkingResolver}
                                  ELSE {OptionResolverNew} :
            app = SchemaTUINew(session[1], session[2], option_resolver, session[3])
    /\ app_pc = "setup"
    /\ app_last = [result |-> NoResult, events |-> <<>>, op |-> "none", before |-> <<>>,
                    persisted |-> FALSE, ran |-> None]

AppIdle ==
    /\ app = SchemaTUINew(Schema, <<>>, OptionResolverNew, None)
    /\ app_pc = "idle"
    /\ app_last = [result |-> NoResult, events |-> <<>>, op |-> "none", before |-> <<>>,
                    persisted |-> FALSE, ran |-> None]

\* HashMap::get
Entry(map, key) == IF key \in DOMAIN map THEN Some(map[key]) ELSE None

\* The controller is in edit mode on a TextInput widget.
EditsText(c) ==
    /\ c.edit_mode
    /\ c.active_field # None
    /\ Unwrap(c.active_field) \in DOMAIN c.active_widgets
    /\ c.active_widgets[Unwrap(c.active_field)].kind = "TextInput"

\* SchemaTUI::on_change: the embedding application registers a handler.
OnChange ==
    /\ app_pc = "setup"
    /\ Len(app.change_handlers) < MaxHandlers
    /\ \E handler \in HandlerIds :
          /\ \A i \in 1..Len(app.change_handlers) : app.change_handlers[i] # handler
          /\ app' = [app EXCEPT !.change_handlers = Append(@, handler)]
    /\ UNCHANGED <<app_pc, app_last>>
    /\ UNCHANGED <<substVars, resolverVars, widgetVars, condVars, fileVars>>

\* SchemaTUI::run starts the event loop.
Run ==
    /\ app_pc = "setup"
    /\ app_pc' = "running"
    /\ UNCHANGED <<app, app_last>>
    /\ UNCHANGED <<substVars, resolverVars, widgetVars, condVars, fileVars>>

\* One turn of the event loop: a key event is handled; the write of the
\* configuration it may cause succeeds or fails.  The loop ends with
\* should_quit.  The buffers of the model are kept within MaxBuf characters.
KeyPress ==
    /\ app_pc = "running"
    /\ ~app.should_quit
    /\ \E key \in AppKeys, save_ok \in WriteOutcomes(app) :
        \E n \in {HandleKey(app @@ [result |-> NoResult, events |-> <<>>], key, save_ok)} :
          /\ \A k \in DOMAIN n.active_widgets :
                /\ Len(n.active_widgets[k].buffer) <= MaxBuf
                /\ Len(n.active_widgets[k].search_buffer) <= MaxBuf
          /\ app' = [f \in DOMAIN app |-> n[f]]
          /\ app_last' = [result |-> n.result, events |-> n.events,
                           op |-> IF app.edit_mode THEN "handle_edit_mode"
                                  ELSE NavigationArm(key),
                           before |-> IF ~EditsText(n) THEN <<>>
                                      ELSE IF app.edit_mode THEN app_last.before
                                      ELSE app.values,
                           ran |-> IF \E i \in 1..Len(n.events) : n.events[i].e = "sh"
                                   THEN Some(app.values)
                                   ELSE app_last.ran,
                           persisted |->
                               /\ EditsText(app)
                               /\ \/ app_last.persisted
                                  \/ \E i \in 1..Len(n.events) :
                                        /\ n.events[i].written
                                        /\ Entry(n.events[i].map, Unwrap(app.active_field))
                                             # Entry(app_last.before, Unwrap(app.active_field))]
    /\ UNCHANGED app_pc
    /\ UNCHANGED <<substVars, resolverVars, widgetVars, condVars, fileVars>>

Next == OnChange \/ Run \/ KeyPress

----------------------------------------------------------------------------
(* Visibility conditions against a value map that changes by commits       *)

\* The key the conditions are about, and another key of the map.
CondKey == <<"g", ".", "k">>
OtherKey == <<"g", ".", "o">>

\* The values a commit stores: what the widgets return, and what a
\* configuration file can hold.
CondValues ==
    {VBool(TRUE), VBool(FALSE), VString(<<"x">>), VString(<<"t", "r", "u", "e">>),
     VNumber(5), VNumber(-5), VFloat(5 * FScale), VNull}

\* The literals of the conditions.
CondLiterals ==
    {<<"t", "r", "u", "e">>, <<"f", "a", "l", "s", "e">>, <<"5">>, <<"-", "5">>, <<"6">>,
     <<"5", ".", "5">>, <<"x">>, <<"\"", "x", "\"">>, <<"'", "x", "'">>, <<>>}

\* `<key> == <literal>` and `<key> != <literal>`, with and without blanks,
\* and two texts without an operator.
Conditions ==
    {CondKey \o op \o lit : op \in {<<"=", "=">>, <<" ", "=", "=", " ">>,
                                     <<"!", "=">>, <<" ", "!", "=", " ">>},
                            lit \in CondLiterals}
    \cup {CondKey, CondKey \o <<" ", "=", " ", "t", "r", "u", "e">>}

\* A schema whose second section, expert, is shown when `g.k == true`.
CondSchema ==
    <<SchemaSection(<<"g">>, <<>>, None),
      SchemaSection(<<"e", "x", "p", "e", "r", "t">>, <<>>,
                    Some(CondKey \o <<" ", "=", "=", " ", "t", "r", "u", "e">>))>>

NoQuery ==
    [op |-> "none", condition |-> <<>>, result |-> TRUE, visible |-> <<>>, hid |-> FALSE]

CondInit ==
    /\ cv_values \in {<<>>, MapInsert(<<>>, OtherKey, VBool(FALSE))}
    /\ cv_last = NoQuery

CondIdle ==
    /\ cv_values = <<>>
    /\ cv_last = NoQuery

\* fire_change stores a value under a key (self.values.insert).
CondCommit ==
    /\ \E key \in {CondKey, OtherKey}, value \in CondValues :
          cv_values' = MapInsert(cv_values, key, value)
    /\ cv_last' = [NoQuery EXCEPT !.op = "insert", !.hid = cv_last.hid]
    /\ UNCHANGED <<substVars, resolverVars, widgetVars, appVars, fileVars>>

\* One call of evaluate_condition.
CondEvaluate ==
    /\ \E condition \in Conditions :
          cv_last' = [NoQuery EXCEPT !.op = "evaluate_condition",
                                     !.condition = condition,
                                     !.result = evaluate_condition(condition, cv_values),
                                     !.hid = cv_last.hid]
    /\ UNCHANGED cv_values
    /\ UNCHANGED <<substVars, resolverVars, widgetVars, appVars, fileVars>>

\* One call of get_visible_sections; hid records that some call so far left
\* the section expert out.
CondVisible ==
    /\ \E visible \in {GetVisibleSections([schema |-> CondSchema, values |-> cv_values])} :
          cv_last' = [NoQuery EXCEPT !.op = "get_visible_sections",
                                     !.visible = visible,
                                     !.hid = cv_last.hid \/ visible = <<0>>]
    /\ UNCHANGED cv_values
    /\ UNCHANGED <<substVars, resolverVars, widgetVars, appVars, fileVars>>

CondNext == CondCommit \/ CondEvaluate \/ CondVisible

----------------------------------------------------------------------------
(* File lists: the paths of a directory and calls of resolve_from_file_list *)

Path(text) == <<"d", "/">> \o text

\* The files glob::glob can yield for d/*, in its alphabetical order.
DirectoryPaths ==
    <<Path(<<".", "t">>), Path(<<"a", ".", "t">>), Path(<<"a", "b", ".", "t">>),
      Path(<<"c">>)>>

\* The results of glob::glob: a pattern error, or any part of the directory.
Globs ==
    {Err(<<"Pattern syntax error">>)}
    \cup {Ok(SelectSeq(DirectoryPaths, LAMBDA path : path \in present)) :
            present \in SUBSET {DirectoryPaths[i] : i \in 1..Len(DirectoryPaths)}}

\* The extract of a FileList source: none, /([a-c]+)\.t, /([a-c]+)?\.t,
\* \.t without a group, x([a-c]+) that occurs in no path, and a pattern that
\* does not compile.
Extracts ==
    {None,
     Some(Regex(TRUE, <<"/">>, "required", <<".", "t">>)),
     Some(Regex(TRUE, <<"/">>, "optional", <<".", "t">>)),
     Some(Regex(TRUE, <<".", "t">>, "absent", <<>>)),
     Some(Regex(TRUE, <<"x">>, "required", <<>>)),
     Some(Regex(FALSE, <<>>, "absent", <<>>))}

NoCall == [ok |-> TRUE, options |-> <<>>, error |-> <<"not called">>]

FileInit ==
    \E glob \in Globs : fl = [glob |-> glob, extract |-> None, result |-> NoCall]

FileIdle == fl = [glob |-> Ok(<<>>), extract |-> None, result |-> NoCall]

\* One call of resolve_from_file_list.
FileResolve ==
    /\ \E extract \in Extracts :
          fl' = [fl EXCEPT !.extract = extract,
                           !.result = resolve_from_file_list(fl.glob, extract)]
    /\ UNCHANGED <<substVars, resolverVars, widgetVars, appVars, condVars>>

\* A file appears in the directory or disappears from it.
FileChange ==
    /\ \E glob \in Globs : fl' = [fl EXCEPT !.glob = glob]
    /\ fl'.glob # fl.glob
    /\ UNCHANGED <<substVars, resolverVars, widgetVars, appVars, condVars>>

FileNext == FileResolve \/ FileChange

----------------------------------------------------------------------------
(* Specifications                                                          *)

InitSubst == SubstInputs /\ ResolverInit /\ WidgetIdle /\ AppIdle /\ CondIdle /\ FileIdle
SpecSubst == InitSubst /\ [][SubstNext]_vars

InitResolver == SubstIdle /\ ResolverInit /\ WidgetIdle /\ AppIdle /\ CondIdle /\ FileIdle
SpecResolver == InitResolver /\ [][ResolverNext]_vars

InitWidget == SubstIdle /\ ResolverInit /\ WidgetInit /\ AppIdle /\ CondIdle /\ FileIdle
SpecWidget == InitWidget /\ [][WidgetNext]_vars

Init == SubstIdle /\ ResolverInit /\ WidgetIdle /\ AppInit /\ CondIdle /\ FileIdle
Spec == Init /\ [][Next]_vars

InitCond == SubstIdle /\ ResolverInit /\ WidgetIdle /\ AppIdle /\ CondInit /\ FileIdle
SpecCond == InitCond /\ [][CondNext]_vars

InitFiles == SubstIdle /\ ResolverInit /\ WidgetIdle /\ AppIdle /\ CondIdle /\ FileInit
SpecFiles == InitFiles /\ [][FileNext]_vars

----------------------------------------------------------------------------
(* Claims about the option resolver                                        *)

\* The latest resolution found, for its cache key, an earlier successful
\* execution under a TTL whose window is still open when it starts.
PriorInWindow ==
    /\ rs_last.prior # None
    /\ rs_last.started - Unwrap(rs_last.prior).stamp < Unwrap(rs_last.prior).ttl

\* C1: a resolution of a Script source with a TTL that starts within the TTL
\* window of the latest successful execution of the same substituted command
\* returns that execution's list without running the process; one that starts
\* when there is no such execution, or once its TTL has elapsed, runs the
\* process again.
C1_TtlCacheWindow ==
    (rs_last.op = "resolve" /\ rs_last.cache_duration # None) =>
        IF PriorInWindow
        THEN /\ ~rs_last.executed
             /\ rs_last.result = Ok(Unwrap(rs_last.prior).options)
        ELSE rs_last.executed

C1_Witness ==
    /\ rs_last.op = "resolve"
    /\ rs_last.cache_duration # None
    /\ PriorInWindow
    /\ ~rs_last.executed
    /\ rs_last.started > Unwrap(rs_last.prior).stamp

\* C10: a resolution of a Script source without TTL always runs the process
\* and neither reads nor writes the cache, whatever the cache holds.
C10_NoTtlNeverCached ==
    (rs_last.op = "resolve" /\ rs_last.cache_duration = None) =>
        /\ rs_last.executed
        /\ ~rs_last.cache_read
        /\ ~rs_last.cache_written
        /\ rs_last.cache_kept

C10_Witness ==
    /\ rs_last.op = "resolve"
    /\ rs_last.cache_duration = None
    /\ PriorInWindow
    /\ rs_last.executed
    /\ rs_last.result.ok
    /\ rs_last.result.options # Unwrap(rs_last.prior).options

\* C11: OptionCache.get(key) returns the stored list if and only if an entry
\* exists for key and the time elapsed since its insertion is strictly less
\* than its TTL; an expired entry is reported as absent and stays in the map.
C11_GetLiveEntriesOnly ==
    /\ rs_last.op = "get" =>
          /\ rs_last.result.ok <=> PriorInWindow
          /\ PriorInWindow => rs_last.result.options = Unwrap(rs_last.prior).options
    /\ \A key \in DOMAIN rs_hist :
          /\ key \in DOMAIN cache
          /\ cache[key].options = rs_hist[key].options
          /\ cache[key].timestamp = rs_hist[key].stamp

\* An entry was read exactly when its TTL had elapsed, and is still stored.
C11_Witness ==
    /\ rs_last.op = "get"
    /\ rs_last.prior # None
    /\ Unwrap(rs_last.prior).ttl > 0
    /\ rs_last.started - Unwrap(rs_last.prior).stamp = Unwrap(rs_last.prior).ttl
    /\ ~rs_last.result.ok
    /\ rs_last.cache_key \in DOMAIN cache

\* C12: for a Script template with a TTL, a resolution served from the cache
\* gets the list of an execution of the same substituted command: the list
\* cached under one binding is never returned under another binding.
C12_BindingsDoNotCollide ==
    (rs_last.op = "resolve" /\ ~rs_last.executed) =>
        /\ rs_last.prior # None
        /\ Unwrap(rs_last.prior).substituted = rs_last.substituted
        /\ rs_last.result = Ok(Unwrap(rs_last.prior).options)

\* A resolution was served from the cache while the cache held a live entry
\* with another list for the other binding.
C12_Witness ==
    /\ rs_last.op = "resolve"
    /\ ~rs_last.executed
    /\ \E key \in DOMAIN cache :
          /\ key # rs_last.cache_key
          /\ CacheGet(cache, key, rs_last.started) # None
          /\ cache[key].options # rs_last.result.options

\* What a successful output is to be read as: the array when it is a JSON array
\* of strings, else its lines, trimmed, the empty ones dropped.
ExpectedOptions(stdout) ==
    IF JsonArrayOfStrings(stdout).ok THEN JsonArrayOfStrings(stdout).options
    ELSE TrimmedNonEmpty(Lines(stdout))

ScriptSucceeded ==
    /\ rs_last.op \in {"resolve", "resolve_sync"}
    /\ rs_last.ran # None
    /\ Unwrap(rs_last.ran).spawned
    /\ Unwrap(rs_last.ran).success

\* C13: on the blocking path (resolve_from_script_sync) and on the suspending
\* path (resolve), successful output that is a JSON array of strings yields
\* that array and any other successful output yields its lines, trimmed, with
\* empty lines dropped; both paths return the same result for the same output.
C13_JsonThenLinesOnBothPaths ==
    ScriptSucceeded => rs_last.result = Ok(ExpectedOptions(Unwrap(rs_last.ran).stdout))

\* The blocking path alone reads every successful output as C13 states.
C13_BlockingPathOnly ==
    (ScriptSucceeded /\ rs_last.op = "resolve_sync") =>
        rs_last.result = Ok(ExpectedOptions(Unwrap(rs_last.ran).stdout))

\* The latest resolution ran the script, which exited with a non-zero status.
ScriptFailed ==
    /\ rs_last.op = "resolve"
    /\ rs_last.ran # None
    /\ Unwrap(rs_last.ran).spawned
    /\ ~Unwrap(rs_last.ran).success

\* C14: when the script exits with a non-zero status, the resolution returns
\* an error carrying the script's standard-error text and stores nothing in
\* the cache (the entries are as before), and the next resolution of the same
\* source under the same binding runs the command again.
C14_FailureIsNotCached ==
    [][/\ ScriptFailed' =>
             /\ rs_last'.result = Err(<<"Script failed: ", Unwrap(rs_last'.ran).stderr>>)
             /\ cache' = cache
       /\ (/\ ScriptFailed
           /\ rs_last'.op = "resolve"
           /\ rs_last'.cache_key = rs_last.cache_key
           /\ rs_last'.cache_duration = rs_last.cache_duration) =>
             rs_last'.executed]_vars

\* A resolution with a TTL failed while the cache held an entry.
C14_Witness ==
    /\ ScriptFailed
    /\ rs_last.cache_duration # None
    /\ rs_last.result = Err(<<"Script failed: ", "denied">>)
    /\ rs_last.cache_key \notin DOMAIN cache
    /\ cache # CacheNew

----------------------------------------------------------------------------
(* Claims about the widgets                                                *)

\* The widgets that have an editing state of their own.
StatefulWidgets == {"TextInput", "NumberInput", "FloatInput", "Dropdown", "SearchableDropdown"}

\* What a widget shows of an edit: buffer, cursor and selection.
EditFields(w) ==
    <<w.buffer, w.cursor_pos, w.selected_index, w.search_buffer,
      w.filtered_options, w.current_value>>

EditingKey(kind) ==
    /\ wd.kind = kind
    /\ wd.state = "Editing"
    /\ wd_last'.op = "key"

\* Claim C26: in an Editing Dropdown with n >= 1 options Down moves the
\* highlight from i to (i + 1) mod n and Up to (i - 1) mod n, both returning
\* Continue; Enter returns Confirmed with the highlighted option and Esc
\* returns Cancelled; without options Up and Down change nothing.
C26_DropdownKeys ==
    [][EditingKey("Dropdown") =>
         LET n == Len(wd.options)
             i == wd.selected_index
             code == wd_last'.key.code
         IN  /\ (n >= 1 /\ code = "Down") =>
                   wd' = [wd EXCEPT !.selected_index = (i + 1) % n] /\ wd_last'.res = Continue
             /\ (n >= 1 /\ code = "Up") =>
                   wd' = [wd EXCEPT !.selected_index = (i + n - 1) % n]
                   /\ wd_last'.res = Continue
             /\ (n >= 1 /\ code = "Enter") =>
                   wd_last'.res = Confirmed(VString(wd.options[i + 1]))
             /\ (n >= 1 /\ code = "Esc") => wd_last'.res = Cancelled
             /\ (n = 0 /\ code \in {"Up", "Down"}) => wd' = wd]_vars

\* Up has taken the highlight from the first of three options to the last.
C26_Witness ==
    /\ wd.kind = "Dropdown"
    /\ wd.state = "Editing"
    /\ wd_last.op = "key"
    /\ wd_last.key = Key("Up")
    /\ Len(wd.options) = 3
    /\ wd.selected_index = 2

\* The option contains the text somewhere, letter case aside.
ContainsIgnoringCase(option, text) ==
    \E i \in 1..(Len(option) - Len(text) + 1) :
        \A j \in 1..Len(text) : LowerChar(option[i + j - 1]) = LowerChar(text[j])

\* Claim C27: in an Editing SearchableDropdown the filtered list is exactly
\* the options that contain the search buffer as a case-insensitive
\* substring, in their original order; Enter on an empty filtered list
\* returns Continue and the widget stays in Editing.
C27_SearchableFilter ==
    [][/\ (wd'.kind = "SearchableDropdown" /\ wd'.state = "Editing") =>
              wd'.filtered_options =
                  SelectSeq(wd'.options,
                            LAMBDA o : ContainsIgnoringCase(o, wd'.search_buffer))
       /\ (/\ EditingKey("SearchableDropdown")
           /\ wd_last'.key.code = "Enter"
           /\ wd.filtered_options = <<>>) =>
              wd_last'.res = Continue /\ wd'.state = "Editing"]_vars

\* Enter has been pressed on a search that matches no option.
C27_Witness ==
    /\ wd.kind = "SearchableDropdown"
    /\ wd.state = "Editing"
    /\ wd_last.op = "key"
    /\ wd_last.key = Key("Enter")
    /\ wd_last.res = Continue
    /\ wd.options # <<>>
    /\ wd.search_buffer # <<>>
    /\ wd.filtered_options = <<>>

\* Claim C34: in every reachable state of a SearchableDropdown selected_index
\* is a valid index of the filtered list, or 0 when the filtered list is
\* empty, so Enter never reads outside the filtered list.
C34_SelectedIndexInFilteredList ==
    wd.kind = "SearchableDropdown" =>
        IF wd.filtered_options = <<>> THEN wd.selected_index = 0
        ELSE wd.selected_index \in 0..(Len(wd.filtered_options) - 1)

\* A typed character has narrowed the list to two options with the highlight
\* on the last of them.
C34_Witness ==
    /\ wd.kind = "SearchableDropdown"
    /\ wd.state = "Editing"
    /\ wd_last.op = "key"
    /\ wd_last.key.code = "Char"
    /\ wd.search_buffer # <<>>
    /\ Len(wd.filtered_options) = 2
    /\ Len(wd.options) = 3
    /\ wd.selected_index = 1

\* Claim C36: every value a Dropdown or SearchableDropdown returns in
\* Confirmed is one of the widget's options; a dropdown without options
\* confirms nothing.
C36_ConfirmedValueIsAnOption ==
    [][\A kind \in {"Dropdown", "SearchableDropdown"} :
         (EditingKey(kind) /\ wd_last'.res.kind = "Confirmed") =>
            /\ wd_last'.res.value.t = "String"
            /\ \E i \in 1..Len(wd.options) : wd.options[i] = wd_last'.res.value.s]_vars

\* The number in the buffer of a numeric widget when it parses and lies within
\* the declared bounds (an undeclared bound imposes no limit), None otherwise.
NumberWithinBounds(w) ==
    LET num == IF w.kind = "FloatInput" THEN ParseF64(w.buffer) ELSE ParseI64(w.buffer)
    IN  IF /\ num # None
           /\ (w.min = None \/ Unwrap(num) >= Unwrap(w.min))
           /\ (w.max = None \/ Unwrap(num) <= Unwrap(w.max))
        THEN num
        ELSE None

NumericValue(w, num) == IF w.kind = "FloatInput" THEN VFloat(num) ELSE VNumber(num)

\* The stepped value held to the declared bounds.
ClampToBounds(w, num) ==
    IF w.max # None /\ num > Unwrap(w.max) THEN Unwrap(w.max)
    ELSE IF w.min # None /\ num < Unwrap(w.min) THEN Unwrap(w.min)
    ELSE num

\* Claim C28: in an Editing FloatInput with a valid buffer and a declared
\* step, Up sets the value to min(current + step, max) and Down to
\* max(current - step, min); with a buffer that is not valid Up and Down
\* leave the buffer unchanged and return Continue.
C28_StepClampsToBounds ==
    [][(EditingKey("FloatInput") /\ wd_last'.key.code \in {"Up", "Down"}) =>
         LET current == NumberWithinBounds(wd)
             delta == IF wd_last'.key.code = "Up" THEN Unwrap(wd.step)
                      ELSE 0 - Unwrap(wd.step)
         IN  /\ (current # None /\ wd.step # None) =>
                   NumberWithinBounds(wd') =
                       Some(ClampToBounds(wd, Unwrap(current) + delta))
             /\ current = None =>
                   wd'.buffer = wd.buffer /\ wd_last'.res = Continue]_vars

\* The characters a numeric widget of the kind accepts.
AllowedChars(kind) ==
    Digits \cup {"-"} \cup (IF kind = "FloatInput" THEN {"."} ELSE {})

\* Digits, at most one minus sign and only in front, and for a FloatInput at
\* most one decimal point.
WellFormed(kind, buffer) ==
    /\ \A i \in 1..Len(buffer) : buffer[i] \in AllowedChars(kind)
    /\ \A i \in 2..Len(buffer) : buffer[i] # "-"
    /\ Cardinality({i \in 1..Len(buffer) : buffer[i] = "."}) <= 1

\* Claim C29: key events on an Editing NumberInput or FloatInput that starts
\* from a well-formed buffer keep the buffer to digits, at most one minus
\* sign that is its first character and (FloatInput) at most one decimal
\* point; any other character typed leaves the buffer unchanged.
C29_NumericBufferWellFormed ==
    [][\A kind \in {"NumberInput", "FloatInput"} :
         EditingKey(kind) =>
           /\ WellFormed(kind, wd.buffer) => WellFormed(kind, wd'.buffer)
           /\ (wd_last'.key.code = "Char" /\ wd_last'.key.c \notin AllowedChars(kind)) =>
                 wd'.buffer = wd.buffer]_vars

\* What a key of the TextInput is to do to the buffer b and the cursor cur.
TextEdit(b, cur, key) ==
    CASE key.code = "Char" ->
           [buffer |-> SubSeq(b, 1, cur) \o Utf8(key.c) \o SubSeq(b, cur + 1, Len(b)),
            cursor_pos |-> cur + 1]
      [] key.code = "Backspace" /\ cur > 0 ->
           [buffer |-> SubSeq(b, 1, cur - 1) \o SubSeq(b, cur + 1, Len(b)),
            cursor_pos |-> cur - 1]
      [] key.code = "Delete" /\ cur < Len(b) ->
           [buffer |-> SubSeq(b, 1, cur) \o SubSeq(b, cur + 2, Len(b)),
            cursor_pos |-> cur]
      [] key.code = "Left" /\ cur > 0 -> [buffer |-> b, cursor_pos |-> cur - 1]
      [] key.code = "Right" /\ cur < Len(b) -> [buffer |-> b, cursor_pos |-> cur + 1]
      [] key.code = "Home" -> [buffer |-> b, cursor_pos |-> 0]
      [] key.code = "End" -> [buffer |-> b, cursor_pos |-> Len(b)]
      [] OTHER -> [buffer |-> b, cursor_pos |-> cur]

\* Claim C30: in an Editing TextInput a character key inserts the character
\* at the cursor, advances the cursor by one and returns Changed(buffer);
\* Left, Right, Home and End move the cursor within [0, length]; Backspace
\* and Delete remove the character before and at the cursor; Enter returns
\* Confirmed with the current buffer as a string.
C30_TextInputEditing ==
    [][EditingKey("TextInput") =>
         LET key == wd_last'.key
             edit == TextEdit(wd.buffer, wd.cursor_pos, key)
         IN  /\ wd'.buffer = edit.buffer
             /\ wd'.cursor_pos = edit.cursor_pos
             /\ wd'.cursor_pos \in 0..Len(wd'.buffer)
             /\ key.code = "Char" => wd_last'.res = Changed(VString(wd'.buffer))
             /\ key.code = "Enter" => wd_last'.res = Confirmed(VString(wd.buffer))]_vars

\* A step in which an Editing NumberInput or FloatInput handles Enter.
EnterOnNumericInput ==
    /\ wd_last'.op = "key"
    /\ wd_last'.key = Key("Enter")
    /\ wd.kind \in {"FloatInput", "NumberInput"}
    /\ wd.state = "Editing"

\* C7: Enter on an Editing NumberInput or FloatInput returns Confirmed with the
\* parsed number and leaves Editing exactly when the buffer parses and lies
\* within [min, max]; otherwise it returns Continue and the widget stays as it
\* was, in Editing with the same buffer.
C7_NumericConfirm ==
    [][EnterOnNumericInput =>
         IF NumberWithinBounds(wd) # None
         THEN /\ wd_last'.res = Confirmed(NumericValue(wd, Unwrap(NumberWithinBounds(wd))))
              /\ wd'.state = "Normal"
         ELSE /\ wd_last'.res = Continue
              /\ wd' = wd]_vars

\* Enter was refused on a FloatInput whose buffer parses but exceeds max.
C7_Witness ==
    /\ wd_last.op = "key"
    /\ wd_last.key = Key("Enter")
    /\ wd_last.res = Continue
    /\ wd.kind = "FloatInput"
    /\ wd.state = "Editing"
    /\ wd.max # None
    /\ ParseF64(wd.buffer) # None
    /\ Unwrap(ParseF64(wd.buffer)) > Unwrap(wd.max)

----------------------------------------------------------------------------
(* Claims about the controller                                             *)

\* The step in which the active widget answers the key with a result of the
\* given kind.
EditStep(kind) ==
    /\ app_pc = "running"
    /\ app.edit_mode
    /\ app.active_field # None
    /\ app_last'.result.kind = kind

\* The key and the value the step is about.
StepKey == Unwrap(app.active_field)
StepValue == app_last'.result.value

\* The calls of save_config that wrote the configuration.
Persisted(events) ==
    {i \in 1..Len(events) : events[i].e = "save_config" /\ events[i].written}

\* Claim C2: when the active widget returns Confirmed(v) for the field of
\* key k, afterwards the value map maps k to v, the controller is in
\* navigation mode with no active field, and no widget for k is retained.
C2_ConfirmedCommits ==
    [][EditStep("Confirmed") =>
          /\ StepKey \in DOMAIN app'.values
          /\ app'.values[StepKey] = StepValue
          /\ ~app'.edit_mode
          /\ app'.active_field = None
          /\ StepKey \notin DOMAIN app'.active_widgets]_vars

C2_Witness ==
    /\ app_last.result = Confirmed(VString(<<"5", "5">>))
    /\ app.values[<<"g", ".", "n">>] = VString(<<"5", "5">>)
    /\ ~app.edit_mode
    /\ <<"t", ".", "l">> \in DOMAIN app.active_widgets

\* Claim C3: on a Confirmed commit of (k, v), the save of the whole value map
\* is attempted before any change handler runs, and then every registered
\* handler is called exactly once with (k, v), in registration order.
C3_SaveThenHandlersInOrder ==
    [][EditStep("Confirmed") =>
          LET events == app_last'.events
              handlers == app.change_handlers
          IN  /\ Len(events) = 1 + Len(handlers)
              /\ events[1].e = "save_config"
              /\ events[1].map = app'.values
              /\ \A i \in 1..Len(handlers) :
                    /\ events[i + 1].e = "handler"
                    /\ events[i + 1].handler = handlers[i]
                    /\ events[i + 1].key = StepKey
                    /\ events[i + 1].value = StepValue]_vars

C3_Witness ==
    /\ app_last.result.kind = "Confirmed"
    /\ app.change_handlers = <<2, 1>>
    /\ Len(app_last.events) = 3
    /\ ~app_last.events[1].written
    /\ app.config_path # None

\* Claim C4: when the active widget returns Changed(v) for key k, v is merged
\* into the value map and the handlers are called with (k, v), but the
\* configuration is not persisted, the widget is kept and the controller
\* stays in edit mode.
C4_ChangedDoesNotPersist ==
    [][EditStep("Changed") =>
          LET events == app_last'.events
          IN  /\ app'.values[StepKey] = StepValue
              /\ \A i \in 1..Len(app.change_handlers) :
                    \E j \in 1..Len(events) :
                        /\ events[j].e = "handler"
                        /\ events[j].handler = app.change_handlers[i]
                        /\ events[j].key = StepKey
                        /\ events[j].value = StepValue
              /\ Persisted(events) = {}
              /\ StepKey \in DOMAIN app'.active_widgets
              /\ app'.edit_mode]_vars

\* Claim C5: after the active widget returns Cancelled, no entry for the key
\* of the cancelled field remains in the widget map.
C5_CancelledDiscardsWidget ==
    [][EditStep("Cancelled") => StepKey \notin DOMAIN app'.active_widgets]_vars

\* Claim C6: handling a Cancelled result changes nothing in the value map,
\* saves nothing and calls no change handler; it returns the controller to
\* navigation mode.
C6_CancelledLeavesValues ==
    [][EditStep("Cancelled") =>
          /\ app'.values = app.values
          /\ app_last'.events = <<>>
          /\ ~app'.edit_mode
          /\ app'.active_field = None
          /\ app'.current_section = app.current_section
          /\ app'.current_field = app.current_field
          /\ app'.change_handlers = app.change_handlers
          /\ app'.should_quit = app.should_quit]_vars

C6_Witness ==
    /\ app_last.result = Cancelled
    /\ app_last.events = <<>>
    /\ ~app.edit_mode
    /\ app.config_path # None
    /\ Len(app.change_handlers) = MaxHandlers
    /\ <<"g", ".", "n">> \in DOMAIN app.values
    /\ app.values[<<"g", ".", "n">>] = VString(<<"5">>)

\* The write of the configuration was attempted and failed.
SaveFailed(events) ==
    \E i \in 1..Len(events) : events[i].e = "save_config" /\ ~events[i].written

\* The fields of SchemaTUI after a key whose save, if any, succeeds.
AppAfterSavedKey(key) ==
    [f \in DOMAIN app |->
        HandleKey(app @@ [result |-> NoResult, events |-> <<>>], key, TRUE)[f]]

\* Claim C15: if persisting fails during a commit, the value map still holds
\* the committed value, the change handlers are still called, and the
\* controller is in the state a successful save leaves it in, so that later
\* activations and commits proceed as usual.
C15_SaveFailureKeepsValue ==
    [][(/\ EditStep("Confirmed")
        /\ app.config_path # None
        /\ SaveFailed(app_last'.events)) =>
          /\ StepKey \in DOMAIN app'.values
          /\ app'.values[StepKey] = StepValue
          /\ \A i \in 1..Len(app.change_handlers) :
                \E j \in 1..Len(app_last'.events) :
                   app_last'.events[j] = HandlerEvent(app.change_handlers[i], StepKey, StepValue)
          /\ ~app'.should_quit
          /\ ~app'.edit_mode
          /\ \E key \in AppKeys : app' = AppAfterSavedKey(key)]_vars

\* The commit of a number went through although the write failed.
C15_Witness ==
    /\ app.config_path # None
    /\ app_last.result = Confirmed(VFloat(0))
    /\ SaveFailed(app_last.events)
    /\ Len(app_last.events) = 1 + MaxHandlers
    /\ <<"t", ".", "l">> \in DOMAIN app.values
    /\ app.values[<<"t", ".", "l">>] = VFloat(0)

\* The step in which Enter in navigation mode activates a field whose widget
\* is a Toggle.
ToggleActivationStep ==
    /\ app_pc = "running"
    /\ ~app.edit_mode
    /\ app_last'.op = "activate_current_field"
    /\ GetCurrentField(app) # None
    /\ Unwrap(GetCurrentField(app)).ui_widget = "Toggle"
    /\ Unwrap(GetCurrentField(app)).field_type.type = "Boolean"

VisibleNow ==
    {i \in 0..(Len(app.schema) - 1) :
        \/ app.schema[i + 1].visible_when = None
        \/ evaluate_condition(Unwrap(app.schema[i + 1].visible_when), app.values)}

\* The cyclic successor and predecessor of a visible section among the
\* visible ones, in schema order.
SuccessorOf(i) ==
    IF \E j \in VisibleNow : j > i
    THEN CHOOSE j \in VisibleNow : j > i /\ \A l \in VisibleNow : l > i => j <= l
    ELSE CHOOSE j \in VisibleNow : \A l \in VisibleNow : j <= l

PredecessorOf(i) ==
    IF \E j \in VisibleNow : j < i
    THEN CHOOSE j \in VisibleNow : j < i /\ \A l \in VisibleNow : l < i => j >= l
    ELSE CHOOSE j \in VisibleNow : \A l \in VisibleNow : j >= l

SectionStep(op) ==
    /\ app_pc = "running"
    /\ ~app.edit_mode
    /\ app_last'.op = op

\* Claim C19: next_section and previous_section move to the cyclic successor
\* and predecessor of the current section among the sections visible under
\* the current value map, or to the first visible section if the current one
\* is not visible; the resulting section is visible and current_field is 0.
\* With no visible section they change nothing.
C19_SectionNavigation ==
    [][\A op \in {"next_section", "previous_section"} :
          SectionStep(op) =>
            IF VisibleNow = {} THEN app' = app
            ELSE /\ app'.current_section \in VisibleNow
                 /\ app'.current_field = 0
                 /\ app'.current_section =
                       IF app.current_section \notin VisibleNow
                       THEN CHOOSE j \in VisibleNow : \A l \in VisibleNow : j <= l
                       ELSE IF op = "next_section" THEN SuccessorOf(app.current_section)
                       ELSE PredecessorOf(app.current_section)
                 /\ app' = [app EXCEPT !.current_section = app'.current_section,
                                       !.current_field = 0]]_vars

\* previous_section has left the last section z for k while h is hidden.
C19_Witness ==
    /\ app_last.op = "previous_section"
    /\ Len(app.schema) = 3
    /\ app.values[<<"h", ".", "v">>] = VBool(TRUE)
    /\ app.values[<<"k", ".", "u">>] = VBool(FALSE)
    /\ app.current_section = 1

\* The number of fields of the current section.
FieldCount == Len(app.schema[app.current_section + 1].fields)

\* current_field is an index of the current section's field list, or 0 in a
\* section without fields.
FieldIndexValid ==
    app_pc = "running" =>
        /\ app.current_section \in 0..(Len(app.schema) - 1)
        /\ IF FieldCount = 0 THEN app.current_field = 0
           ELSE app.current_field \in 0..(FieldCount - 1)

\* Claim C20: next_field and previous_field move current_field to
\* (current_field + 1) and (current_field - 1) modulo the number of fields of
\* the current section and change nothing else, and nothing at all in a
\* section without fields; before and after every step of a session
\* current_field is an index of the current section's fields (0 in a section
\* without fields).
C20_FieldNavigation ==
    [][/\ FieldIndexValid
       /\ FieldIndexValid'
       /\ SectionStep("next_field") =>
             app' = IF FieldCount = 0 THEN app
                    ELSE [app EXCEPT !.current_field = (app.current_field + 1) % FieldCount]
       /\ SectionStep("previous_field") =>
             app' = IF FieldCount = 0 THEN app
                    ELSE [app EXCEPT !.current_field =
                             (app.current_field + FieldCount - 1) % FieldCount]]_vars

\* previous_field has wrapped from the first field to the last one.
C20_Witness ==
    /\ app_pc = "running"
    /\ app_last.op = "previous_field"
    /\ FieldCount = 2
    /\ app.current_field = 1

\* The resolution of the options of an Enum field fails in the controller's
\* resolver: the provider is not registered or its get_options fails, the
\* script cannot be run or exits with a failure, the glob is refused.
ResolutionFails(field_type) ==
    LET source == field_type.options_source
        resolver == app.option_resolver
    IN  /\ field_type.type = "Enum"
        /\ CASE source.type \in {"function", "provider"} ->
                   \/ source.name \notin DOMAIN resolver.providers
                   \/ ~resolver.providers[source.name].ok
              [] source.type = "script" -> ~resolver.run.spawned \/ ~resolver.run.success
              [] source.type = "file_list" -> ~resolver.glob.ok
              [] OTHER -> FALSE

\* Claim C24: when the options of the Enum field that is activated cannot be
\* resolved, the activation still opens the field's widget for editing, with
\* an empty option list; the session goes on, and Esc on that widget gives
\* back navigation mode.
C24_FailedResolutionGivesEmptyList ==
    [][(/\ app_pc = "running"
        /\ ~app.edit_mode
        /\ app_last'.op = "activate_current_field"
        /\ GetCurrentField(app) # None
        /\ ResolutionFails(Unwrap(GetCurrentField(app)).field_type)) =>
          LET field_key == GetCurrentFieldKey(app)
          IN  /\ field_key \in DOMAIN app'.active_widgets
              /\ app'.active_widgets[field_key].options = <<>>
              /\ app'.active_widgets[field_key].state = "Editing"
              /\ app'.edit_mode
              /\ app'.active_field = Some(field_key)
              /\ ~app'.should_quit
              /\ app'.values = app.values
              /\ ~HandleKey(app' @@ [result |-> NoResult, events |-> <<>>],
                            Key("Esc"), TRUE).edit_mode]_vars

\* The field of the unregistered provider was opened, left with Esc, and the
\* field of the failing script is open now, with no options.
C24_Witness ==
    /\ app_last.op = "activate_current_field"
    /\ app.edit_mode
    /\ app.active_field = Some(<<"p", ".", "s">>)
    /\ DOMAIN app.active_widgets = {<<"p", ".", "u">>, <<"p", ".", "s">>}
    /\ app.active_widgets[<<"p", ".", "s">>].options = <<>>
    /\ ~app.option_resolver.run.success

\* What a widget offers for editing: its buffer, or its highlighted option.
EditValue(w) ==
    CASE w.kind = "Dropdown" -> DropdownGetCurrentValue(w)
      [] w.kind = "SearchableDropdown" ->
            IF w.selected_index < Len(w.filtered_options)
            THEN w.filtered_options[w.selected_index + 1] ELSE <<>>
      [] OTHER -> w.buffer

\* The edit value that stands for a stored value, and the one that stands for
\* the default of a field type.
EditValueOf(value) ==
    CASE value.t = "String" -> value.s
      [] value.t = "Float"  -> F64ToString(value.f)
      [] value.t = "Number" -> IntToString(value.n)
      [] OTHER -> <<>>

DefaultEditValue(field_type) ==
    CASE field_type.type = "Enum" ->
            IF field_type.default # None
               /\ Position(field_type.options, Unwrap(field_type.default)) # None
            THEN Unwrap(field_type.default)
            ELSE IF field_type.options # <<>> THEN Head(field_type.options) ELSE <<>>
      [] field_type.type = "Float" ->
            F64ToString(IF field_type.default # None THEN Unwrap(field_type.default) ELSE 0)
      [] field_type.type = "Number" ->
            IntToString(IF field_type.default # None THEN Unwrap(field_type.default) ELSE 0)
      [] OTHER -> IF field_type.default # None THEN Unwrap(field_type.default) ELSE <<>>

\* The step in which Enter in navigation mode opens the current field for
\* editing.
ActivationStep ==
    /\ app_pc = "running"
    /\ ~app.edit_mode
    /\ app'.edit_mode
    /\ app'.active_field # None

\* Claim C16: on every activation of a field, the edit value of its widget
\* is the one of the value map's entry for the field's key, or the one of the
\* schema default if the key is absent, also when the field was edited
\* earlier in the session.
C16_ActivationSeedsFromValues ==
    [][ActivationStep =>
          LET field_key == Unwrap(app'.active_field)
              field == Unwrap(GetCurrentField(app))
          IN  /\ field_key \in DOMAIN app'.active_widgets
              /\ EditValue(app'.active_widgets[field_key]) =
                    IF field_key \in DOMAIN app.values
                    THEN EditValueOf(app.values[field_key])
                    ELSE DefaultEditValue(field.field_type)]_vars

\* The controller after one more key, the write of the configuration
\* succeeding.
AfterKey(c, key) ==
    HandleKey([f \in DOMAIN app |-> c[f]] @@ [result |-> NoResult, events |-> <<>>], key, TRUE)

\* The first activation of an Enum field with Static options and a default:
\* no widget of the field exists yet and the value map holds what the
\* construction of the controller merged for a key absent from the initial
\* values, the default.
FirstEnumActivation ==
    /\ ActivationStep
    /\ Unwrap(app'.active_field) \notin DOMAIN app.active_widgets
    /\ LET field_type == Unwrap(GetCurrentField(app)).field_type
       IN  /\ field_type.type = "Enum"
           /\ field_type.options_source.type = "static"
           /\ field_type.default # None
           /\ Position(field_type.options, Unwrap(field_type.default)) # None
           /\ GetCurrentFieldKey(app) \in DOMAIN app.values
           /\ app.values[GetCurrentFieldKey(app)] = VString(Unwrap(field_type.default))

----------------------------------------------------------------------------
(* Claims about the visibility conditions                                  *)

\* The section expert (index 1 of CondSchema) is in a visible-section list.
ExpertVisible(visible) == \E i \in 1..Len(visible) : visible[i] = 1

\* Claim C21: every call of get_visible_sections lists the section with the
\* condition `g.k == true` when g.k is absent from the value map at that
\* moment, leaves it out when the map holds false for g.k, and lists it when
\* the map holds true, whatever the map held at earlier calls.
C21_VisibilityFollowsValues ==
    [][cv_last'.op = "get_visible_sections" =>
         /\ CondKey \notin DOMAIN cv_values' => ExpertVisible(cv_last'.visible)
         /\ (CondKey \in DOMAIN cv_values' /\ cv_values'[CondKey].t = "Bool") =>
               (ExpertVisible(cv_last'.visible) <=> cv_values'[CondKey].b)]_vars

\* The section was left out at an earlier call and is listed now that g.k
\* is true.
C21_Witness ==
    /\ cv_last.op = "get_visible_sections"
    /\ cv_last.hid
    /\ ExpertVisible(cv_last.visible)
    /\ CondKey \in DOMAIN cv_values
    /\ cv_values[CondKey] = VBool(TRUE)

\* A literal of the type of a stored value: true or false for a boolean, an
\* integer for an integer, any text for a string.
LiteralMatches(value, lit) ==
    CASE value.t = "Bool" -> lit \in {<<"t", "r", "u", "e">>, <<"f", "a", "l", "s", "e">>}
      [] value.t = "Number" -> ParseI64(lit) # None
      [] value.t = "String" -> TRUE
      [] OTHER -> FALSE

\* Claim C22: when the value map holds a boolean, a string or an integer for
\* the key and the literal is of that type, `key != literal` evaluates to the
\* negation of `key == literal`.
C22_DiffersNegatesEquals ==
    [][\A lit \in CondLiterals, ne \in {<<"!", "=">>, <<" ", "!", "=", " ">>} :
         (/\ cv_last'.op = "evaluate_condition"
          /\ cv_last'.condition = CondKey \o ne \o lit
          /\ CondKey \in DOMAIN cv_values'
          /\ LiteralMatches(cv_values'[CondKey], lit)) =>
            cv_last'.result =
                ~evaluate_condition(CondKey \o <<"=", "=">> \o lit, cv_values')]_vars

\* Claim C23: evaluate_condition returns a boolean for every condition, and
\* true when the key of the condition is absent from the value map or the
\* stored value is of a type the literal is not of (a boolean against a
\* literal other than true and false, a number against a literal that is no
\* integer, a value that is neither boolean, string nor integer).
C23_FailOpen ==
    [][cv_last'.op = "evaluate_condition" =>
         /\ cv_last'.result \in BOOLEAN
         /\ \A lit \in CondLiterals,
               op \in {<<"=", "=">>, <<" ", "=", "=", " ">>, <<"!", "=">>, <<" ", "!", "=", " ">>} :
               (/\ cv_last'.condition = CondKey \o op \o lit
                /\ \/ CondKey \notin DOMAIN cv_values'
                   \/ ~LiteralMatches(cv_values'[CondKey], lit)) =>
                 cv_last'.result = TRUE]_vars

\* An integer was compared with a literal that is no integer.
C23_Witness ==
    /\ cv_last.op = "evaluate_condition"
    /\ cv_last.condition = CondKey \o <<"=", "=", "5", ".", "5">>
    /\ CondKey \in DOMAIN cv_values
    /\ cv_values[CondKey] = VNumber(5)
    /\ cv_last.result

----------------------------------------------------------------------------
(* Claims about substitute_variables                                       *)

\* Some placeholder of the command is bound to text that itself contains a
\* placeholder.
ValueIntroducesPlaceholder ==
    \E k \in 1..Len(Captures(sv_command)) :
        Captures(Replacement(sv_values, Captures(sv_command)[k].name)) # <<>>

\* C8: substitution is single-pass: when a substituted value brings in text of
\* the form ${other}, that text is left as it is in the result, so the result
\* is the one-pass reading of the template.
C8_NoRecursiveExpansion ==
    (sv_pc = "done" /\ ValueIntroducesPlaceholder)
        => sv_result = SinglePass(sv_command, sv_values)

\* C9: every occurrence of every placeholder is replaced by the stringified
\* value of its key (the empty string for a missing key), all other text is
\* kept, and a template without placeholders comes back unchanged.
C9_EveryPlaceholderReplaced ==
    sv_pc = "done" =>
        /\ sv_result = SinglePass(sv_command, sv_values)
        /\ (Captures(sv_command) = <<>> => sv_result = sv_command)


----------------------------------------------------------------------------
(* Claims about file lists                                                 *)

\* What the first capture group of the pattern holds on the path: None when
\* the pattern does not match or its group captured nothing.
FirstGroup(re, path) ==
    LET caps == RegexCaptures(re, path)
    IN  IF caps = None THEN None ELSE Unwrap(caps)

\* The entries the file list is to show for the paths.
RECURSIVE CapturedNames(_, _)
CapturedNames(paths, re) ==
    IF paths = <<>> THEN <<>>
    ELSE (IF FirstGroup(re, Head(paths)) = None THEN <<>>
          ELSE <<Unwrap(FirstGroup(re, Head(paths)))>>)
         \o CapturedNames(Tail(paths), re)

\* A call of resolve_from_file_list on paths that glob yielded.
FileListCall ==
    /\ fl'.glob = fl.glob
    /\ fl.glob.ok

\* Claim C31: with an extraction pattern, a file list leaves out every
\* matched path on which the pattern fails to capture and shows, for every
\* other path, the first capture group on the full path, never the raw file
\* name; without an extraction pattern every entry is the base name.
C31_FileListExtraction ==
    [][FileListCall =>
         LET paths == fl.glob.options
             extract == fl'.extract
         IN  /\ extract = None =>
                   fl'.result = Ok([i \in 1..Len(paths) |-> FileName(paths[i])])
             /\ (extract # None /\ Unwrap(extract).valid) =>
                   fl'.result = Ok(CapturedNames(paths, Unwrap(extract)))]_vars


----------------------------------------------------------------------------
(* Claims about edits that are given up                                    *)

\* The key of the step is Escape, handled by a text field in edit mode.
EscapeOnTextField ==
    /\ EditsText(app)
    /\ app_last'.op = "handle_edit_mode"
    /\ app_last'.result = Cancelled

\* Claim C32: a text field that is activated, typed into and left with Escape
\* has the entry in the value map, and in the persisted configuration, that
\* it had before the activation.
C32_CancelledEditLeavesNoTrace ==
    [][EscapeOnTextField =>
         /\ Entry(app'.values, Unwrap(app.active_field))
              = Entry(app_last.before, Unwrap(app.active_field))
         /\ ~app_last'.persisted]_vars


----------------------------------------------------------------------------
(* Claims about the options of Enum fields in the controller               *)

\* The field under the cursor is an Enum whose options come from a script
\* with a declared TTL.
OnCachedScriptField ==
    /\ GetCurrentField(app) # None
    /\ Unwrap(GetCurrentField(app)).field_type.type = "Enum"
    /\ Unwrap(GetCurrentField(app)).field_type.options_source.type = "script"
    /\ Unwrap(GetCurrentField(app)).field_type.options_source.cache_duration # None

\* Claim C33: activating an Enum field with a Script source and a TTL again
\* within the TTL, the values being those of the activation that ran the
\* script with success, does not run the script a second time.  A session of
\* the model takes less than the TTL.
C33_SecondActivationUsesCache ==
    [][(/\ OnCachedScriptField
        /\ app.option_resolver.run.spawned
        /\ app.option_resolver.run.success
        /\ app_last'.op = "activate_current_field"
        /\ app_last.ran = Some(app.values)) =>
          \A i \in 1..Len(app_last'.events) : app_last'.events[i].e # "sh"]_vars


----------------------------------------------------------------------------
(* Claims about what reaches the value map                                 *)

\* The value is a number within the bounds the field type declares.
NumberInRange(field_type, value) ==
    LET scale == IF field_type.type = "Float" THEN 1 ELSE FScale
    IN  /\ AsF64(value) # None
        /\ field_type.min # None => Unwrap(AsF64(value)) >= Unwrap(field_type.min) * scale
        /\ field_type.max # None => Unwrap(AsF64(value)) <= Unwrap(field_type.max) * scale

\* The entries of a value map for the bounded Number and Float fields of the
\* schema are numbers within the bounds.
BoundedEntriesValid(schema, values) ==
    \A s \in 1..Len(schema) : \A f \in 1..Len(schema[s].fields) :
        LET field == schema[s].fields[f]
            field_key == FieldKey(schema[s], field)
        IN  (/\ field.field_type.type \in {"Number", "Float"}
             /\ field.field_type.min # None
             /\ field.field_type.max # None
             /\ field_key \in DOMAIN values) =>
                NumberInRange(field.field_type, values[field_key])

\* Claim C35: for a Number or Float field with declared bounds and an initial
\* value within them, the entry of the value map, and of every map written to
\* the configuration, is a number within [min, max] in every reachable state.
C35_InvalidBufferNeverMerged ==
    /\ BoundedEntriesValid(app.schema, app.values)
    /\ \A i \in 1..Len(app_last.events) :
          app_last.events[i].written =>
              BoundedEntriesValid(app.schema, app_last.events[i].map)


----------------------------------------------------------------------------
(* Claims about the controller's mode                                      *)

\* Claim C37: edit_mode holds exactly when active_field is set; in edit mode
\* the active field has a widget and it is Editing; in navigation mode no
\* retained widget is Editing.
C37_ModeAgreesWithWidgets ==
    /\ app.edit_mode <=> app.active_field # None
    /\ app.edit_mode =>
          /\ Unwrap(app.active_field) \in DOMAIN app.active_widgets
          /\ app.active_widgets[Unwrap(app.active_field)].state = "Editing"
    /\ ~app.edit_mode =>
          \A field_key \in DOMAIN app.active_widgets :
              app.active_widgets[field_key].state # "Editing"


\* What handle_key makes of the controller for Escape.
AfterEscape == HandleKey(app @@ [result |-> NoResult, events |-> <<>>], Key("Esc"), TRUE)

\* Claim C38: in edit mode Escape returns the controller to navigation mode,
\* with edit_mode false and no active field, whatever the field type, the
\* ui_widget and the widget's buffer are.
C38_EscapeLeavesEditMode ==
    app.edit_mode => (~AfterEscape.edit_mode /\ AfterEscape.active_field = None)


\* The keys that navigate or quit in navigation mode.
NavigationKeys ==
    {Key(code) : code \in {"Esc", "Tab", "BackTab", "Left", "Right", "Up", "Down", "Enter"}}
    \cup {CharKey(c) : c \in {"q", "h", "j", "k", "l", " "}}

\* The cursor and the quit flag of a controller.
Cursor(c) == <<c.current_section, c.current_field, c.should_quit>>

\* Claim C39: in edit mode a key goes to the active widget only: no key, the
\* navigation keys q, Tab, the arrows and h, j, k, l included, changes
\* current_section or current_field or sets should_quit.
C39_EditModeKeepsCursor ==
    app.edit_mode =>
        \A key \in NavigationKeys \cup AppKeys, save_ok \in WriteOutcomes(app) :
            Cursor(HandleKey(app @@ [result |-> NoResult, events |-> <<>>], key, save_ok))
                = Cursor(app)

\* A key was handled in edit mode away from the first field, and the
\* controller is still in edit mode there.
C39_Witness ==
    /\ app.edit_mode
    /\ app_last.op = "handle_edit_mode"
    /\ app.current_section = 1
    /\ ~app.should_quit
    /\ app_last.result.kind \in {"Continue", "Changed"}


----------------------------------------------------------------------------
(* Claims about the cursor of the text and numeric inputs                  *)

\* Claim C40: after any sequence of keys, multi-byte characters included, the
\* cursor of a TextInput or FloatInput is within [0, length of the buffer] and
\* on a character boundary of the buffer, and no step has failed.
C40_CursorOnCharBoundary ==
    wd.kind \in {"TextInput", "FloatInput"} =>
        /\ wd.cursor_pos \in 0..Len(wd.buffer)
        /\ IsCharBoundary(wd.buffer, wd.cursor_pos)
        /\ wd_last.res # Panicked

====
